---- MODULE Spec2Model ----
(***************************************************************************)
(* Model of marblesbounty.py: the bounty ledger (bounty_board), its        *)
(* persisted copy (bounty_board.json), the single-slot last_game_data, the *)
(* submit_marbles pipeline and the interactive edit views, as one state    *)
(* machine whose steps are the stretches of handler code between two       *)
(* suspension points (await) of the cooperative scheduler.                 *)
(***************************************************************************)
EXTENDS Integers, Sequences, FiniteSets, TLC

\* ------------------------------------------------------------------ bounds
\* Commands and Done presses that take effect in a run: accepted submissions,
\* edit views opened, corrections, removals and resets.
MaxOps == 3
\* The same, in the runs of the correction workflow alone.
MaxCorrectionOps == 4
\* Screenshots in one call of merge_screenshot_data, and players on one
\* screenshot, in the runs of the merge alone.
MaxScreens == 3
MaxScreenPlayers == 3
\* Players of one game, in the runs of the score and of one ledger update
\* alone.
MaxGamePlayers == 10

\* ------------------------------------------------------- program constants
WIN_BONUS == 200
PLACEMENT_FACTOR == 20

\* ------------------------------------------------------------------- text
\* Strings are sequences of one-character strings.
UpperChars ==
  << "A", "B", "C", "D", "E", "F", "G", "H", "I", "J", "K", "L", "M",
     "N", "O", "P", "Q", "R", "S", "T", "U", "V", "W", "X", "Y", "Z" >>

LowerChars ==
  << "a", "b", "c", "d", "e", "f", "g", "h", "i", "j", "k", "l", "m",
     "n", "o", "p", "q", "r", "s", "t", "u", "v", "w", "x", "y", "z" >>

\* str.lower() on one character.
LowerChar(c) ==
  IF \E i \in 1..Len(UpperChars) : UpperChars[i] = c
  THEN LowerChars[CHOOSE i \in 1..Len(UpperChars) : UpperChars[i] = c]
  ELSE c

\* str.lower()
lower(s) == [i \in 1..Len(s) |-> LowerChar(s[i])]

\* The player names of the model: two spellings of one name that differ only
\* by letter case, and two other names.
Names ==
  { <<"A", "n", "n">>, <<"a", "n", "n">>, <<"b", "o", "b">>, <<"c", "a", "t">> }

\* --------------------------------------------------------------- rankings
\* A parsed screenshot: {'total_players': n, 'results': [(name, position)]}.
MkRanking(names) ==
  [ total_players |-> Len(names),
    results |-> [i \in 1..Len(names) |-> <<names[i], i>>] ]

\* The Ranking invariant of the data model.
IsRanking(r) ==
  /\ r.total_players = Len(r.results)
  /\ \A i \in 1..Len(r.results) : r.results[i][2] = i
  /\ \A i, j \in 1..Len(r.results) :
       i # j => lower(r.results[i][1]) # lower(r.results[j][1])

\* What parse_marbles_screenshot returns for the screenshots of the model: a
\* screen of three players and a screen of two that overlaps it, spelling one
\* of its names with another letter case.
Rankings ==
  { MkRanking(<< <<"A", "n", "n">>, <<"b", "o", "b">>, <<"c", "a", "t">> >>),
    MkRanking(<< <<"a", "n", "n">>, <<"c", "a", "t">> >>) }

NoRanking == [total_players |-> 0, results |-> <<>>]

\* ------------------------------------------------------------ dict (board)
\* A Python dict str -> int, in insertion order: a sequence of <<key, value>>.
Keys(board) == { board[i][1] : i \in 1..Len(board) }

Has(board, k) == k \in Keys(board)

Get(board, k) == board[CHOOSE i \in 1..Len(board) : board[i][1] = k][2]

\* board[k] = v
Put(board, k, v) ==
  IF Has(board, k)
  THEN [i \in 1..Len(board) |-> IF board[i][1] = k THEN <<k, v>> ELSE board[i]]
  ELSE Append(board, <<k, v>>)

\* del board[k]
Del(board, k) == SelectSeq(board, LAMBDA e : e[1] # k)

\* ------------------------------------------------------------------ score
\* int(x) for the rational x = num / den, den > 0: truncation toward zero.
IntTrunc(num, den) ==
  IF num >= 0 THEN num \div den ELSE -((-num) \div den)

\* A score that halves N with integer division, against which
\* ScoreClosedForm is measured.
calculate_bounty_floor_half(position, total_players, is_winner) ==
  LET win_bounty == IF is_winner THEN WIN_BONUS ELSE 0
  IN  win_bounty
        + ((total_players - position + 1) - (total_players \div 2))
            * PLACEMENT_FACTOR

\* A score that counts the placement from the bottom, against which
\* ScoreDecreasesWithPosition is measured.
calculate_bounty_from_bottom(position, total_players, is_winner) ==
  LET win_bounty == IF is_winner THEN WIN_BONUS ELSE 0
  IN  win_bounty
        + IntTrunc((2 * position - total_players) * PLACEMENT_FACTOR, 2)

\* calculate_bounty: win_bounty + int(((N - position + 1) - N / 2) * factor),
\* where N / 2 is true division; the product is the rational
\* (2 * (N - position + 1) - N) * factor / 2.
calculate_bounty(position, total_players, is_winner) ==
  LET win_bounty == IF is_winner THEN WIN_BONUS ELSE 0
      num == (2 * (total_players - position + 1) - total_players)
               * PLACEMENT_FACTOR
  IN  win_bounty + IntTrunc(num, 2)

\* ------------------------------------------------------------------ merge
\* A fold that compares the names as they are spelled, against which
\* MergeAppendsNewNames is measured.
RECURSIVE MergeIntoCaseSensitive(_, _)
MergeIntoCaseSensitive(merged_results, new_results) ==
  IF new_results = <<>> THEN merged_results
  ELSE LET player_name == Head(new_results)[1]
           existing_names ==
             { merged_results[i][1] : i \in 1..Len(merged_results) }
       IN  IF player_name \in existing_names
           THEN MergeIntoCaseSensitive(merged_results, Tail(new_results))
           ELSE MergeIntoCaseSensitive(
                  Append(merged_results,
                         <<player_name, Len(merged_results) + 1>>),
                  Tail(new_results))

\* A fold that appends an entry with the position its own screenshot gave
\* it, against which MergeKeepsRankingInvariant is measured.
RECURSIVE MergeIntoOwnPosition(_, _)
MergeIntoOwnPosition(merged_results, new_results) ==
  IF new_results = <<>> THEN merged_results
  ELSE LET player_name == Head(new_results)[1]
           existing_names ==
             { lower(merged_results[i][1]) : i \in 1..Len(merged_results) }
       IN  IF lower(player_name) \in existing_names
           THEN MergeIntoOwnPosition(merged_results, Tail(new_results))
           ELSE MergeIntoOwnPosition(
                  Append(merged_results, Head(new_results)),
                  Tail(new_results))

\* One later screenshot folded into the merged results: an entry whose
\* lower-cased name is already there is skipped, any other is appended with
\* the next position.
RECURSIVE MergeInto(_, _)
MergeInto(merged_results, new_results) ==
  IF new_results = <<>> THEN merged_results
  ELSE LET player_name == Head(new_results)[1]
           existing_names ==
             { lower(merged_results[i][1]) : i \in 1..Len(merged_results) }
       IN  IF lower(player_name) \in existing_names
           THEN MergeInto(merged_results, Tail(new_results))
           ELSE MergeInto(
                  Append(merged_results,
                         <<player_name, Len(merged_results) + 1>>),
                  Tail(new_results))

\* A loop over the later screenshots that takes the newest first, against
\* which MergeInOneCallOrInTwo is measured.
RECURSIVE MergeRestNewestFirst(_, _)
MergeRestNewestFirst(merged_results, rest) ==
  IF rest = <<>> THEN merged_results
  ELSE MergeRestNewestFirst(
         MergeInto(merged_results, rest[Len(rest)].results),
         SubSeq(rest, 1, Len(rest) - 1))

\* The loop of merge_screenshot_data over parsed_data_list[1:].
RECURSIVE MergeRest(_, _)
MergeRest(merged_results, rest) ==
  IF rest = <<>> THEN merged_results
  ELSE MergeRest(MergeInto(merged_results, Head(rest).results), Tail(rest))

\* merge_screenshot_data(parsed_data_list), for a non-empty list.
merge_screenshot_data(parsed_data_list) ==
  IF Len(parsed_data_list) = 1 THEN parsed_data_list[1]
  ELSE LET merged_results ==
             MergeRest(parsed_data_list[1].results, Tail(parsed_data_list))
       IN  [ total_players |-> Len(merged_results),
             results |-> merged_results ]

\* ----------------------------------------------------------------- ledger
\* A save that writes nothing, against which WriteThrough is measured.
SaveWritesNothing(file, board, ok) == file

\* save_bounty_board: the file takes the whole mapping; when open(DB_FILE, 'w')
\* raises (ok = FALSE) the file keeps its content and the exception propagates.
save_bounty_board(file, board, ok) == IF ok THEN board ELSE file

\* A loop body that stores the score of the game as the total of a known
\* player instead of adding it, against which ApplyRaisesSumBy10NPlus200 is
\* measured.
AddEntryOverwrites(board, player_name, position, total_players) ==
  Put(board, player_name,
      calculate_bounty(position, total_players, position = 1))

\* A loop body that adds the score to the first key equal to the name without
\* regard to letter case, against which ApplyChangesOnlyNamedKeys is measured.
AddEntryFoldsCase(board, player_name, position, total_players) ==
  LET is_winner == (position = 1)
      bounty == calculate_bounty(position, total_players, is_winner)
      same == { i \in 1..Len(board) : lower(board[i][1]) = lower(player_name) }
  IN  IF same # {}
      THEN LET key == board[CHOOSE i \in same : \A j \in same : i <= j][1]
           IN  Put(board, key, Get(board, key) + bounty)
      ELSE Put(board, player_name, bounty)

\* A loop body that keeps no key whose total is 0, against which
\* ApplyNeverDeletesKey is measured.
AddEntryDropsZero(board, player_name, position, total_players) ==
  LET is_winner == (position = 1)
      bounty == calculate_bounty(position, total_players, is_winner)
      total == (IF Has(board, player_name) THEN Get(board, player_name) ELSE 0)
                 + bounty
  IN  IF total = 0 THEN Del(board, player_name)
      ELSE Put(board, player_name, total)

\* The body of the loop of update_bounty_board for one entry.
AddEntry(board, player_name, position, total_players) ==
  LET is_winner == (position = 1)
      bounty == calculate_bounty(position, total_players, is_winner)
  IN  IF Has(board, player_name)
      THEN Put(board, player_name, Get(board, player_name) + bounty)
      ELSE Put(board, player_name, bounty)

\* The loop of update_bounty_board over parsed_data['results'].
RECURSIVE AddResults(_, _, _)
AddResults(board, results, total_players) ==
  IF results = <<>> THEN board
  ELSE AddResults(
         AddEntry(board, Head(results)[1], Head(results)[2], total_players),
         Tail(results), total_players)

\* A revert step without the "del": a total that reaches 0 stays as a key.
\* RevertRestoresLedger is measured against it.
RevertEntryKeepsKey(board, player_name, position, total_players) ==
  LET is_winner == (position = 1)
      bounty == calculate_bounty(position, total_players, is_winner)
  IN  IF Has(board, player_name)
      THEN Put(board, player_name, Get(board, player_name) - bounty)
      ELSE board

\* A revert step without the "if player_name in bounty_board": the score is
\* subtracted from 0 for a player the ledger does not hold.
\* RevertNeverCreatesKey is measured against it.
RevertEntryOfAbsent(board, player_name, position, total_players) ==
  LET is_winner == (position = 1)
      bounty == calculate_bounty(position, total_players, is_winner)
      total == (IF Has(board, player_name) THEN Get(board, player_name) ELSE 0)
                 - bounty
  IN  IF total = 0 THEN Del(board, player_name)
      ELSE Put(board, player_name, total)

\* The body of the revert loop of PlayerRemovalView.done_editing for one entry.
RevertEntry(board, player_name, position, total_players) ==
  LET is_winner == (position = 1)
      bounty == calculate_bounty(position, total_players, is_winner)
  IN  IF Has(board, player_name)
      THEN IF Get(board, player_name) - bounty = 0
           THEN Del(board, player_name)
           ELSE Put(board, player_name, Get(board, player_name) - bounty)
      ELSE board

\* The revert loop of PlayerRemovalView.done_editing over game_data['results'].
RECURSIVE RevertResults(_, _, _)
RevertResults(board, results, total_players) ==
  IF results = <<>> THEN board
  ELSE RevertResults(
         RevertEntry(board, Head(results)[1], Head(results)[2], total_players),
         Tail(results), total_players)

Range(list) == { list[i] : i \in 1..Len(list) }

InList(x, list) == \E i \in 1..Len(list) : list[i] = x

\* filtered_results: the entries whose name is not in removed_players.
FilterResults(results, removed_players) ==
  SelectSeq(results, LAMBDA e : ~InList(e[1], removed_players))

\* A corrected ranking whose entries keep the positions they had, against
\* which CorrectionAppliesCorrectedRanking is measured.
NewGameDataKeepsPositions(results, removed_players) ==
  LET filtered_results == FilterResults(results, removed_players)
  IN  [total_players |-> Len(filtered_results), results |-> filtered_results]

\* new_game_data: the filtered entries renumbered 1, 2, 3, ...
NewGameData(results, removed_players) ==
  LET filtered_results == FilterResults(results, removed_players)
      new_results ==
        [idx \in 1..Len(filtered_results) |-> <<filtered_results[idx][1], idx>>]
  IN  [total_players |-> Len(new_results), results |-> new_results]

\* PlayerRemovalView.get_available_players
get_available_players(game_data, removed_players) ==
  FilterResults(game_data.results, removed_players)

\* A done_editing without its early return, against which
\* EmptyCorrectionIsNoOp is measured.
NoneRemovedNever(removed_players) == FALSE

\* "if not self.removed_players" at the top of both done_editing callbacks.
NoneRemoved(removed_players) == removed_players = <<>>

\* A fallback that keeps looking after a match and so deletes the last key
\* equal case-insensitively, against which RemoveDeletesResolvedKey is
\* measured.
RECURSIVE LastCaseInsensitive(_, _)
LastCaseInsensitive(board, player) ==
  IF board = <<>> THEN <<>>
  ELSE IF lower(board[Len(board)][1]) = lower(player)
       THEN <<board[Len(board)][1]>>
  ELSE LastCaseInsensitive(SubSeq(board, 1, Len(board) - 1), player)

\* The first key of the board equal to player case-insensitively, as <<key>>,
\* or <<>>: the second loop of remove_player and of bounty_slash.
RECURSIVE FirstCaseInsensitive(_, _)
FirstCaseInsensitive(board, player) ==
  IF board = <<>> THEN <<>>
  ELSE IF lower(Head(board)[1]) = lower(player) THEN <<Head(board)[1]>>
  ELSE FirstCaseInsensitive(Tail(board), player)

\* The key a lookup of player resolves to: exact match first, then the
\* case-insensitive fallback; <<>> when there is none.
ResolveKey(board, player) ==
  IF Has(board, player) THEN <<player>> ELSE FirstCaseInsensitive(board, player)

\* The loop of LeaderboardEditView.done_editing: every marked player that is
\* still a key is deleted.
RECURSIVE DeleteAll(_, _)
DeleteAll(board, removed_players) ==
  IF removed_players = <<>> THEN board
  ELSE DeleteAll(
         IF Has(board, Head(removed_players))
         THEN Del(board, Head(removed_players)) ELSE board,
         Tail(removed_players))

\* A filename check that lets every attachment through, against which
\* NonImageRejectsUnreadableSkips is measured.
AllImagesUnchecked(exts) == TRUE

\* The filename check of submit_marbles: every attachment must carry an
\* image extension (TRUE in exts).
AllImages(exts) == \A i \in 1..Len(exts) : exts[i]

\* A loop that keeps what a failed screenshot left behind, against which
\* AllScreenshotsFailedAborts is measured.
ProcessScreenshotKeepsFailed(all_parsed_data, outcome) ==
  Append(all_parsed_data, outcome.data)

\* A loop that puts the newest screenshot first, against which
\* MergedRankingAppliedOnce is measured.
ProcessScreenshotNewestFirst(all_parsed_data, outcome) ==
  IF outcome.kind = "parsed" THEN <<outcome.data>> \o all_parsed_data
  ELSE all_parsed_data

\* One pass of the screenshot loop of submit_marbles: a screenshot whose
\* download, OCR or parse fails is skipped (continue), a parsed one is
\* appended to all_parsed_data.
ProcessScreenshot(all_parsed_data, outcome) ==
  IF outcome.kind = "parsed" THEN Append(all_parsed_data, outcome.data)
  ELSE all_parsed_data

\* ----------------------------------------------------------------- parser
\* The characters of the texts are ASCII, where \w is [A-Za-z0-9_].
Digits == << "0", "1", "2", "3", "4", "5", "6", "7", "8", "9" >>

IsAsciiLetter(c) ==
  \E i \in 1..Len(UpperChars) : UpperChars[i] = c \/ LowerChars[i] = c

\* str.isdigit() on one character.
IsDigit(c) == \E i \in 1..Len(Digits) : Digits[i] = c

\* \w
IsWord(c) == IsAsciiLetter(c) \/ IsDigit(c) \/ c = "_"

\* \s
IsSpace(c) == c \in {" ", "\t", "\n"}

\* str.upper() on one character.
UpperChar(c) ==
  IF \E i \in 1..Len(LowerChars) : LowerChars[i] = c
  THEN UpperChars[CHOOSE i \in 1..Len(LowerChars) : LowerChars[i] = c]
  ELSE c

\* str.upper()
upper(s) == [i \in 1..Len(s) |-> UpperChar(s[i])]

\* re.sub(r'[...]', to, s) for a class of single characters.
ReSubChars(s, from, to) ==
  [i \in 1..Len(s) |-> IF s[i] \in from THEN to ELSE s[i]]

\* A normalisation that maps 5 to S after the text was lowered, against which
\* NormalizeIsIdempotent is measured.
normalize_ocr_text_upper_s(text) ==
  ReSubChars(ReSubChars(ReSubChars(lower(text), {"l", "1"}, "i"),
                        {"0"}, "o"),
             {"5"}, "S")

\* A normalisation without the step 0 -> o, against which
\* FuzzyMatchIsNormalizedSubstring is measured.
normalize_ocr_text_keeps_zero(text) ==
  ReSubChars(ReSubChars(lower(text), {"l", "1"}, "i"), {"5"}, "s")

\* normalize_ocr_text: lower case, then [l1] -> i, then 0 -> o, then 5 -> s.
normalize_ocr_text(text) ==
  ReSubChars(ReSubChars(ReSubChars(lower(text), {"l", "1"}, "i"),
                        {"0"}, "o"),
             {"5"}, "s")

\* sub in text
Contains(sub, text) ==
  \E i \in 0..(Len(text) - Len(sub)) : SubSeq(text, i + 1, i + Len(sub)) = sub

fuzzy_match_keyword(text, keyword) ==
  LET normalized_text == normalize_ocr_text(text)
      normalized_keyword == normalize_ocr_text(keyword)
  IN  Contains(normalized_keyword, normalized_text)

fuzzy_match_any(text, keywords) ==
  \E k \in 1..Len(keywords) : fuzzy_match_keyword(text, keywords[k])

\* str.strip()
strip(s) ==
  LET kept == { i \in 1..Len(s) : ~IsSpace(s[i]) }
  IN  IF kept = {} THEN <<>>
      ELSE SubSeq(s, CHOOSE i \in kept : \A j \in kept : i <= j,
                     CHOOSE i \in kept : \A j \in kept : i >= j)

\* str.split(sep) for a separator of one character.
RECURSIVE SplitOn(_, _)
SplitOn(s, sep) ==
  LET at == { i \in 1..Len(s) : s[i] = sep }
  IN  IF at = {} THEN <<s>>
      ELSE LET i == CHOOSE i \in at : \A j \in at : i <= j
           IN  <<SubSeq(s, 1, i - 1)>> \o SplitOn(SubSeq(s, i + 1, Len(s)), sep)

\* str.split(): the runs of characters that are not whitespace.
RECURSIVE split(_)
split(s) ==
  LET t == strip(s)
      at == { i \in 1..Len(t) : IsSpace(t[i]) }
  IN  IF t = <<>> THEN <<>>
      ELSE IF at = {} THEN <<t>>
      ELSE LET i == CHOOSE i \in at : \A j \in at : i <= j
           IN  <<SubSeq(t, 1, i - 1)>> \o split(SubSeq(t, i + 1, Len(t)))

\* sep.join(words)
RECURSIVE Join(_, _)
Join(words, sep) ==
  IF words = <<>> THEN <<>>
  ELSE IF Len(words) = 1 THEN words[1]
  ELSE words[1] \o sep \o Join(Tail(words), sep)

\* clean_player_name: re.sub(r'[^\w\s-]', '', name), runs of whitespace
\* collapsed, stripped.
clean_player_name(name) ==
  LET kept == SelectSeq(name, LAMBDA c : IsWord(c) \/ IsSpace(c) \/ c = "-")
  IN  strip(Join(split(kept), <<" ">>))

\* ['1ST', '2ND', '3RD', 'DNF', 'IST']
placement_indicators ==
  << <<"1", "S", "T">>,
     <<"2", "N", "D">>,
     <<"3", "R", "D">>,
     <<"D", "N", "F">>,
     <<"I", "S", "T">> >>

header_keywords ==
  << <<"p", "l", "a", "c", "e">>,
     <<"p", "l", "a", "y", "e", "r">>,
     <<"t", "i", "m", "e">>,
     <<"p", "o", "i", "n", "t", "s">>,
     <<"d", "a", "m", "a", "g", "e">>,
     <<"w", "i", "n", "s">>,
     <<"r", "a", "c", "e", "s">>,
     <<"e", "l", "i", "m", "i", "n", "a", "t", "i", "o", "n">>,
     <<"n", "a", "m", "e">> >>

\* ['place', 'player'], the keywords of a header line.
header_line_keywords ==
  << <<"p", "l", "a", "c", "e">>,
     <<"p", "l", "a", "y", "e", "r">> >>

ignore_words ==
  << <<"e", "v", "e", "n">>,
     <<"d", "l", "t", "c">>,
     <<"d", "e", "f">>,
     <<"j", "u", "a", "z">>,
     <<"d", "n", "e">> >>

\* A pattern that lets a name start with any word character, against which
\* ParsedNamesAreUsernames is measured.
MatchesUsernameAnyStart(s) ==
  /\ s # <<>>
  /\ \A i \in 1..Len(s) : IsWord(s[i])

\* re.match(r'^[A-Za-z][A-Za-z0-9_]*$', s)
MatchesUsername(s) ==
  /\ s # <<>>
  /\ IsAsciiLetter(s[1])
  /\ \A i \in 1..Len(s) : IsWord(s[i])

\* The loop over the tokens of a line in the strict pass: player_name as
\* <<name>>, or <<>> for None.
RECURSIVE FindPlayerName(_)
FindPlayerName(tokens) ==
  IF tokens = <<>> THEN <<>>
  ELSE LET token == Head(tokens)
           token_clean == SelectSeq(token, IsWord)
       IN  IF InList(upper(token), placement_indicators)
             THEN FindPlayerName(Tail(tokens))
           ELSE IF fuzzy_match_any(token_clean, header_keywords)
             THEN FindPlayerName(Tail(tokens))
           ELSE IF InList(lower(token_clean), ignore_words)
             THEN FindPlayerName(Tail(tokens))
           ELSE IF MatchesUsername(token_clean) /\ Len(token_clean) >= 3
             THEN <<clean_player_name(token_clean)>>
           ELSE FindPlayerName(Tail(tokens))

\* A duplicate test that compares the spellings as they are, against which
\* ParsedRankingIsRanking is measured.
SeenNameExact(results, name) ==
  \E i \in 1..Len(results) : results[i][1] = name

\* any(p[0].lower() == name.lower() for p in results)
SeenName(results, name) ==
  \E i \in 1..Len(results) : lower(results[i][1]) = lower(name)

\* The parser between two lines: the entries accepted and the position
\* counter.
NoEntries == [results |-> <<>>, position |-> 0]

\* position += 1; results.append((name, position))
Accept(st, name) ==
  [ results |-> Append(st.results, <<name, st.position + 1>>),
    position |-> st.position + 1 ]

\* A strict pass whose header line takes a position, against which
\* HeaderLineIsSkipped is measured.
StrictLineHeaderCounts(st, line) ==
  IF fuzzy_match_any(line, header_line_keywords)
    THEN [st EXCEPT !.position = st.position + 1]
  ELSE IF /\ fuzzy_match_any(line, header_keywords)
          /\ ~\E i \in 1..Len(line) : IsDigit(line[i])
       THEN st
  ELSE LET player_name == FindPlayerName(split(line))
       IN  IF /\ player_name # <<>>
              /\ Len(player_name[1]) >= 3
              /\ ~SeenName(st.results, player_name[1])
           THEN Accept(st, player_name[1])
           ELSE st

\* The body of the loop of the strict pass for one line.
StrictLine(st, line) ==
  IF fuzzy_match_any(line, header_line_keywords) THEN st
  ELSE IF /\ fuzzy_match_any(line, header_keywords)
          /\ ~\E i \in 1..Len(line) : IsDigit(line[i])
       THEN st
  ELSE LET player_name == FindPlayerName(split(line))
       IN  IF /\ player_name # <<>>
              /\ Len(player_name[1]) >= 3
              /\ ~SeenName(st.results, player_name[1])
           THEN Accept(st, player_name[1])
           ELSE st

RECURSIVE StrictPass(_, _)
StrictPass(st, clean_lines) ==
  IF clean_lines = <<>> THEN st
  ELSE StrictPass(StrictLine(st, Head(clean_lines)), Tail(clean_lines))

\* The end of the run of [A-Za-z0-9_] that starts at place i of line.
RECURSIVE RunEnd(_, _)
RunEnd(line, i) ==
  IF i < Len(line) /\ IsWord(line[i + 1]) THEN RunEnd(line, i + 1) ELSE i

\* re.findall(r'[A-Za-z][A-Za-z0-9_]{2,}', line) from place i on: the
\* leftmost matches, each as long as it can be, not overlapping.
RECURSIVE FindAllFrom(_, _)
FindAllFrom(line, i) ==
  IF i > Len(line) THEN <<>>
  ELSE IF IsAsciiLetter(line[i]) /\ RunEnd(line, i) - i + 1 >= 3
       THEN <<SubSeq(line, i, RunEnd(line, i))>>
              \o FindAllFrom(line, RunEnd(line, i) + 1)
  ELSE FindAllFrom(line, i + 1)

\* A loop over potential_names without the break, which accepts every name
\* of the line that passes; StrictOrElseAggressive is measured against it.
RECURSIVE AggressiveNamesNoBreak(_, _)
AggressiveNamesNoBreak(st, potential_names) ==
  IF potential_names = <<>> THEN st
  ELSE LET name == Head(potential_names)
       IN  IF \/ fuzzy_match_any(name, header_keywords)
              \/ InList(lower(name), ignore_words)
              \/ SeenName(st.results, name)
           THEN AggressiveNamesNoBreak(st, Tail(potential_names))
           ELSE AggressiveNamesNoBreak(Accept(st, name),
                                       Tail(potential_names))

\* The loop over potential_names in the aggressive pass: the first name that
\* is no header keyword, no ignore word and no duplicate is accepted, and the
\* loop ends.
RECURSIVE AggressiveNames(_, _)
AggressiveNames(st, potential_names) ==
  IF potential_names = <<>> THEN st
  ELSE LET name == Head(potential_names)
       IN  IF fuzzy_match_any(name, header_keywords)
             THEN AggressiveNames(st, Tail(potential_names))
           ELSE IF InList(lower(name), ignore_words)
             THEN AggressiveNames(st, Tail(potential_names))
           ELSE IF SeenName(st.results, name)
             THEN AggressiveNames(st, Tail(potential_names))
           ELSE Accept(st, name)

\* The body of the loop of the aggressive pass for one line.
AggressiveLine(st, line) ==
  IF fuzzy_match_any(line, header_line_keywords) THEN st
  ELSE AggressiveNames(st, FindAllFrom(line, 1))

RECURSIVE AggressivePass(_, _)
AggressivePass(st, clean_lines) ==
  IF clean_lines = <<>> THEN st
  ELSE AggressivePass(AggressiveLine(st, Head(clean_lines)),
                      Tail(clean_lines))

\* The lines of the text, stripped, that are longer than 2 characters.
CleanLines(text) ==
  LET lines == SplitOn(text, "\n")
      stripped == [i \in 1..Len(lines) |-> strip(lines[i])]
  IN  SelectSeq(stripped, LAMBDA line : line # <<>> /\ Len(line) > 2)

\* A return that hands out the dict whatever results holds, against which
\* ParseNeverReturnsEmptyRanking is measured.
ParseReturnAlways(results) ==
  << [total_players |-> Len(results), results |-> results] >>

\* The end of parse_marbles_screenshot: None (<<>>) when results is empty,
\* else the dict, as <<dict>>.
ParseReturn(results) ==
  IF results = <<>> THEN <<>>
  ELSE << [total_players |-> Len(results), results |-> results] >>

\* The entries of the strict pass over the text.
StrictResults(text) == StrictPass(NoEntries, CleanLines(text)).results

\* The entries of the aggressive pass over the text.
AggressiveResults(text) == AggressivePass(NoEntries, CleanLines(text)).results

parse_marbles_screenshot(text) ==
  LET results == IF Len(StrictResults(text)) < 2
                 THEN AggressiveResults(text)
                 ELSE StrictResults(text)
  IN  ParseReturn(results)

\* ---------------------------------------------------------------- display
\* A message is the sequence of its lines; a line is its kind, its number of
\* characters with the line break, and for a row of the table its rank (or
\* position), player and bounty. len() counts an emoji as one character.
TextLine(kind, len) ==
  [kind |-> kind, len |-> len, rank |-> 0, player |-> <<>>, bounty |-> 0]

RowLine(len, rank, player, bounty) ==
  [kind |-> "row", len |-> len, rank |-> rank, player |-> player,
   bounty |-> bounty]

\* len(current_message)
RECURSIVE MessageLen(_)
MessageLen(message) ==
  IF message = <<>> THEN 0
  ELSE Head(message).len + MessageLen(Tail(message))

\* len(str(n)) for n >= 0
RECURSIVE DecimalLen(_)
DecimalLen(n) == IF n < 10 THEN 1 ELSE 1 + DecimalLen(n \div 10)

\* len(f"{n}")
IntLen(n) == IF n < 0 THEN 1 + DecimalLen(-n) ELSE DecimalLen(n)

\* len(f"{n:+}")
SignedLen(n) == 1 + DecimalLen(IF n < 0 THEN -n ELSE n)

\* The length of a field of a format specification with a width: the text
\* is padded up to the width, never cut.
Padded(len, width) == IF len < width THEN width ELSE len

\* An insertion that puts an item before the items of equal bounty, which
\* reverses the order of ties; LeaderboardListsEveryPlayerOnce is measured
\* against it.
RECURSIVE InsertBeforeTies(_, _)
InsertBeforeTies(sorted, item) ==
  IF sorted = <<>> THEN <<item>>
  ELSE IF Head(sorted)[2] > item[2]
       THEN <<Head(sorted)>> \o InsertBeforeTies(Tail(sorted), item)
  ELSE <<item>> \o sorted

\* One item put in its place of a list sorted by bounty, descending: after
\* the items of greater or equal bounty (sorted() is stable, with
\* reverse=True too).
RECURSIVE InsertDescending(_, _)
InsertDescending(sorted, item) ==
  IF sorted = <<>> THEN <<item>>
  ELSE IF Head(sorted)[2] >= item[2]
       THEN <<Head(sorted)>> \o InsertDescending(Tail(sorted), item)
  ELSE <<item>> \o sorted

\* sorted(bounty_board.items(), key=lambda x: x[1], reverse=True)
RECURSIVE SortedPlayers(_)
SortedPlayers(board) ==
  IF board = <<>> THEN <<>>
  ELSE InsertDescending(
         SortedPlayers(SubSeq(board, 1, Len(board) - 1)), board[Len(board)])

\* title, "```", the column names and the rule of 40 dashes, of the first
\* message and of a continued one.
LeaderboardHead(continued) ==
  << TextLine("title", IF continued THEN 40 ELSE 28), TextLine("fence", 4),
     TextLine("columns", 39), TextLine("rule", 41) >>

\* f"{medal} {rank:<3} {player:<20} {bounty:>10}\n": the medal is one emoji
\* for the ranks 1 to 3 and three spaces after them.
LeaderboardRow(rank, player, bounty) ==
  RowLine((IF rank <= 3 THEN 1 ELSE 3) + 1 + Padded(DecimalLen(rank), 3) + 1
            + Padded(Len(player), 20) + 1 + Padded(IntLen(bounty), 10) + 1,
          rank, player, bounty)

\* The closing "```".
CloseLine == TextLine("close", 3)

\* The body of the loop of both formatters for one line: when the message
\* with the line and 10 more characters would pass 1900, the message is
\* closed and a continued one started.
AddLine(st, line, continued_head) ==
  IF MessageLen(st.current_message) + line.len + 10 > 1900
  THEN [ messages |-> Append(st.messages,
                             Append(st.current_message, CloseLine)),
         current_message |-> Append(continued_head, line),
         done |-> st.done + 1 ]
  ELSE [ messages |-> st.messages,
         current_message |-> Append(st.current_message, line),
         done |-> st.done + 1 ]

\* The formatter before its loop: no message closed, the head of the first
\* one written, no item done.
FirstMessage(head) ==
  [messages |-> <<>>, current_message |-> head, done |-> 0]

\* The loop of format_leaderboard over enumerate(sorted_players, 1).
RECURSIVE LeaderboardLoop(_, _)
LeaderboardLoop(st, sorted_players) ==
  IF st.done >= Len(sorted_players) THEN st
  ELSE LET rank == st.done + 1
       IN  LeaderboardLoop(
             AddLine(st,
                     LeaderboardRow(rank, sorted_players[rank][1],
                                    sorted_players[rank][2]),
                     LeaderboardHead(TRUE)),
             sorted_players)

\* format_leaderboard(), the ledger being board: the list of messages.
format_leaderboard(board) ==
  IF board = <<>> THEN << <<TextLine("empty", 55)>> >>
  ELSE LET st == LeaderboardLoop(FirstMessage(LeaderboardHead(FALSE)),
                                  SortedPlayers(board))
       IN  Append(st.messages, Append(st.current_message, CloseLine))

\* The head of a message of format_game_results: the title of the first one
\* holds the number of players.
GameResultsHead(continued, total_players) ==
  << TextLine("title",
              IF continued THEN 32 ELSE 38 + DecimalLen(total_players)),
     TextLine("fence", 4), TextLine("columns", 38), TextLine("rule", 41) >>

\* f"{medal}{position:<4} {player_name:<20} {bounty:>+10}\n": the medal is a
\* crown for the winner and three spaces for the others.
GameResultsRow(player_name, position, total_players) ==
  LET is_winner == (position = 1)
      bounty == calculate_bounty(position, total_players, is_winner)
  IN  RowLine((IF is_winner THEN 1 ELSE 3) + Padded(DecimalLen(position), 4)
                + 1 + Padded(Len(player_name), 20) + 1
                + Padded(SignedLen(bounty), 10) + 1,
              position, player_name, bounty)

\* The loop of format_game_results over results.
RECURSIVE GameResultsLoop(_, _, _)
GameResultsLoop(st, results, total_players) ==
  IF st.done >= Len(results) THEN st
  ELSE GameResultsLoop(
         AddLine(st,
                 GameResultsRow(results[st.done + 1][1],
                                results[st.done + 1][2], total_players),
                 GameResultsHead(TRUE, total_players)),
         results, total_players)

format_game_results(parsed_data) ==
  LET st == GameResultsLoop(
              FirstMessage(GameResultsHead(FALSE,
                                           parsed_data.total_players)),
              parsed_data.results, parsed_data.total_players)
  IN  Append(st.messages, Append(st.current_message, CloseLine))

\* ------------------------------------------------------------------ state
VARIABLES
  bounty_board,    \* the in-memory ledger (global bounty_board)
  db_file,         \* the mapping stored in bounty_board.json
  last_game_data,  \* <<>> for None, else <<the last ranking applied>>
  sub,             \* the submit_marbles call in flight: its locals and place
  other_sub,       \* a second submit_marbles call in flight, suspended at an
                   \* await while the steps of the first run
  removal_views,   \* the open PlayerRemovalViews, oldest first
  lb_views,        \* the open LeaderboardEditViews, oldest first
  apply_log,       \* history: <<[L, R]>> while ranking R, applied to ledger L,
                   \* is the latest ledger operation; <<>> otherwise
  event,           \* history: the step just taken and its result
  ops              \* commands and Done presses that may still take effect

vars ==
  << bounty_board, db_file, last_game_data, sub, other_sub, removal_views,
     lb_views, apply_log, event, ops >>

\* No submit_marbles call in flight. screenshots is the number of attachments,
\* idx the number of them the loop has been through; failed and unreadable are
\* history: how many of those the loop gave up on, and whether one of them
\* could not be downloaded as an image.
IdleSub ==
  [ pc |-> "idle", screenshots |-> 0, idx |-> 0, all_parsed_data |-> <<>>,
    merged_data |-> <<>>, failed |-> 0, unreadable |-> FALSE ]

\* The attachment lists of the model, as the filename check sees them: TRUE
\* for a name with an image extension.
AttachmentLists ==
  { <<TRUE>>, <<FALSE>>, <<TRUE, TRUE>>, <<TRUE, FALSE>>, <<TRUE, TRUE, TRUE>> }

\* What a screenshot can come to in the loop of submit_marbles.
Outcomes ==
  { [kind |-> k, data |-> NoRanking] : k \in {"unreadable", "empty", "noparse"} }
    \cup { [kind |-> "parsed", data |-> r] : r \in Rankings }

Ev(op, outcome, detail) == [op |-> op, outcome |-> outcome, detail |-> detail]

\* load_bounty_board() finds no file; no game has been submitted.
Started(budget) ==
  /\ bounty_board = <<>>
  /\ db_file = <<>>
  /\ last_game_data = <<>>
  /\ sub = IdleSub
  /\ other_sub = IdleSub
  /\ removal_views = <<>>
  /\ lb_views = <<>>
  /\ apply_log = <<>>
  /\ ops = budget
  /\ event = Ev("start", "ok", <<>>)

Init == Started(MaxOps)

RemoveAt(seq, i) ==
  [j \in 1..(Len(seq) - 1) |-> IF j < i THEN seq[j] ELSE seq[j + 1]]

\* ------------------------------------------------------- submit_marbles
\* The command up to its first await: the filename check of every attachment,
\* then defer.
SubmitStart(exts) ==
  /\ sub.pc = "idle"
  /\ IF AllImages(exts)
     THEN /\ ops > 0
          /\ sub' = [IdleSub EXCEPT !.pc = "processing",
                                     !.screenshots = Len(exts)]
          /\ ops' = ops - 1
          /\ event' = Ev("SubmitStart", "deferred", <<exts>>)
     ELSE /\ UNCHANGED <<sub, ops>>
          /\ event' = Ev("SubmitStart", "rejected", <<exts>>)
  /\ UNCHANGED <<bounty_board, db_file, last_game_data, removal_views,
                 lb_views, apply_log, other_sub>>

\* One pass of the screenshot loop: download, OCR, parse.
SubmitProcess(outcome) ==
  /\ sub.pc = "processing"
  /\ sub.idx < sub.screenshots
  /\ sub' = [sub EXCEPT
               !.idx = @ + 1,
               !.all_parsed_data = ProcessScreenshot(@, outcome),
               !.failed = IF outcome.kind = "parsed" THEN @ ELSE @ + 1,
               !.unreadable = @ \/ outcome.kind = "unreadable"]
  /\ event' = Ev("SubmitProcess", outcome.kind, <<outcome.data>>)
  /\ UNCHANGED <<bounty_board, db_file, last_game_data, removal_views,
                 lb_views, apply_log, ops, other_sub>>

\* An await of the pipeline raises before the ledger update (a followup.send
\* that fails): the except clause reports the error.
SubmitException ==
  /\ sub.pc \in {"processing", "merged"}
  /\ sub' = IdleSub
  /\ event' = Ev("SubmitException", "error", <<>>)
  /\ UNCHANGED <<bounty_board, db_file, last_game_data, removal_views,
                 lb_views, apply_log, ops, other_sub>>

\* "if not all_parsed_data": the submission is given up.
SubmitAbort ==
  /\ sub.pc = "processing"
  /\ sub.idx = sub.screenshots
  /\ sub.all_parsed_data = <<>>
  /\ sub' = IdleSub
  /\ event' = Ev("SubmitAbort", "aborted", <<sub.screenshots>>)
  /\ UNCHANGED <<bounty_board, db_file, last_game_data, removal_views,
                 lb_views, apply_log, ops, other_sub>>

\* More than one screenshot parsed: merge, then the "Merged ..." message (await).
SubmitMerge ==
  /\ sub.pc = "processing"
  /\ sub.idx = sub.screenshots
  /\ Len(sub.all_parsed_data) > 1
  /\ sub' = [sub EXCEPT !.pc = "merged",
               !.merged_data = <<merge_screenshot_data(sub.all_parsed_data)>>]
  /\ event' = Ev("SubmitMerge", "merged", <<>>)
  /\ UNCHANGED <<bounty_board, db_file, last_game_data, removal_views,
                 lb_views, apply_log, ops, other_sub>>

\* An update whose loop is suspended after its first entry: the ledger other
\* handlers then see holds one entry of the ranking, nothing is saved yet.
\* LedgerChangesByWholeOperations is measured against it.
update_bounty_board_suspended(board, parsed_data, ok) ==
  /\ last_game_data' = <<parsed_data>>
  /\ bounty_board' =
       AddResults(board, SubSeq(parsed_data.results, 1, 1),
                  parsed_data.total_players)
  /\ db_file' = db_file

\* update_bounty_board(parsed_data) called when the ledger is board, the save
\* succeeding or raising: last_game_data is set first, the file written last.
update_bounty_board(board, parsed_data, ok) ==
  /\ last_game_data' = <<parsed_data>>
  /\ bounty_board' =
       AddResults(board, parsed_data.results, parsed_data.total_players)
  /\ db_file' = save_bounty_board(db_file, bounty_board', ok)

\* update_bounty_board(merged_data) of submit_marbles, up to the next await; a
\* save that raises ends the command in its except clause.
SubmitUpdate(ok) ==
  /\ \/ /\ sub.pc = "processing"
        /\ sub.idx = sub.screenshots
        /\ Len(sub.all_parsed_data) = 1
     \/ sub.pc = "merged"
  /\ LET merged_data ==
           IF sub.pc = "merged" THEN sub.merged_data[1]
           ELSE sub.all_parsed_data[1]
     IN  /\ update_bounty_board(bounty_board, merged_data, ok)
         /\ apply_log' = <<[L |-> bounty_board, R |-> merged_data]>>
         /\ sub' = IF ok THEN [IdleSub EXCEPT !.pc = "report"] ELSE IdleSub
         /\ event' =
              Ev("SubmitUpdate", IF ok THEN "ok" ELSE "error",
                 << [ parsed |-> sub.all_parsed_data, failed |-> sub.failed ] >>)
  /\ UNCHANGED <<removal_views, lb_views, ops, other_sub>>

\* The result and leaderboard messages after the update; one of these awaits
\* may raise, which the except clause reports.
SubmitReport(ok) ==
  /\ sub.pc = "report"
  /\ sub' = IdleSub
  /\ event' = Ev("SubmitReport", IF ok THEN "ok" ELSE "error", <<>>)
  /\ UNCHANGED <<bounty_board, db_file, last_game_data, removal_views,
                 lb_views, apply_log, ops, other_sub>>

\* ------------------------------------------------------- edit_last_game
\* The command: a PlayerRemovalView on the ranking last_game_data holds now.
edit_last_game ==
  /\ IF last_game_data = <<>>
     THEN /\ UNCHANGED <<removal_views, ops>>
          /\ event' = Ev("edit_last_game", "nodata", <<>>)
     ELSE /\ ops > 0
          /\ ops' = ops - 1
          /\ removal_views' =
               Append(removal_views,
                      [game_data |-> last_game_data[1], removed_players |-> <<>>])
          /\ event' = Ev("edit_last_game", "opened", <<>>)
  /\ UNCHANGED <<bounty_board, db_file, last_game_data, sub, lb_views,
                 apply_log, other_sub>>

\* PlayerRemovalView.player_selected: one of the players the select menu shows.
ViewSelect(i, player) ==
  /\ i \in 1..Len(removal_views)
  /\ \E e \in Range(get_available_players(removal_views[i].game_data,
                                          removal_views[i].removed_players)) :
       e[1] = player
  /\ removal_views' =
       [removal_views EXCEPT ![i].removed_players = Append(@, player)]
  /\ event' = Ev("ViewSelect", "ok", <<>>)
  /\ UNCHANGED <<bounty_board, db_file, last_game_data, sub, lb_views,
                 apply_log, ops, other_sub>>

\* PlayerRemovalView.done_editing from the button press to its first await
\* after the ledger update. The button exists while update_view found an
\* available player.
ViewDone(i, ok) ==
  /\ i \in 1..Len(removal_views)
  /\ LET self == removal_views[i]
         total_players == self.game_data.total_players
         reverted ==
           RevertResults(bounty_board, self.game_data.results, total_players)
         new_game_data ==
           NewGameData(self.game_data.results, self.removed_players)
     IN  /\ get_available_players(self.game_data, self.removed_players) # <<>>
         /\ IF NoneRemoved(self.removed_players)
            THEN /\ ok
                 /\ UNCHANGED <<bounty_board, db_file, last_game_data,
                                apply_log, ops>>
                 /\ event' =
                      Ev("ViewDone", "none",
                         << [ game |-> self.game_data,
                              removed |-> self.removed_players,
                              log |-> apply_log, before |-> bounty_board,
                              reverted |-> bounty_board ] >>)
            ELSE /\ ops > 0
                 /\ ops' = ops - 1
                 /\ update_bounty_board(reverted, new_game_data, ok)
                 /\ apply_log' = <<[L |-> reverted, R |-> new_game_data]>>
                 /\ event' =
                      Ev("ViewDone", IF ok THEN "ok" ELSE "error",
                         << [ game |-> self.game_data,
                              removed |-> self.removed_players,
                              log |-> apply_log, before |-> bounty_board,
                              reverted |-> reverted ] >>)
  /\ UNCHANGED <<sub, removal_views, lb_views, other_sub>>

\* The view stops taking clicks: Cancel, the message edit that ends
\* done_editing, or the view's timeout.
ViewClose(i) ==
  /\ i \in 1..Len(removal_views)
  /\ removal_views' = RemoveAt(removal_views, i)
  /\ event' = Ev("ViewClose", "ok", <<>>)
  /\ UNCHANGED <<bounty_board, db_file, last_game_data, sub, lb_views,
                 apply_log, ops, other_sub>>

\* ------------------------------------------------------ edit_leaderboard
\* The command: a LeaderboardEditView whose select menu shows the players of
\* the ledger.
edit_leaderboard ==
  /\ IF bounty_board = <<>>
     THEN /\ UNCHANGED <<lb_views, ops>>
          /\ event' = Ev("edit_leaderboard", "empty", <<>>)
     ELSE /\ ops > 0
          /\ ops' = ops - 1
          /\ lb_views' =
               Append(lb_views,
                      [removed_players |-> <<>>, options |-> Keys(bounty_board)])
          /\ event' = Ev("edit_leaderboard", "opened", <<>>)
  /\ UNCHANGED <<bounty_board, db_file, last_game_data, sub, removal_views,
                 apply_log, other_sub>>

\* LeaderboardEditView.player_selected, then update_view over the ledger as
\* it is now.
LbSelect(i, player) ==
  /\ i \in 1..Len(lb_views)
  /\ player \in lb_views[i].options
  /\ LET removed_players ==
           IF InList(player, lb_views[i].removed_players)
           THEN lb_views[i].removed_players
           ELSE Append(lb_views[i].removed_players, player)
     IN  lb_views' =
           [lb_views EXCEPT ![i] =
              [ removed_players |-> removed_players,
                options |->
                  { k \in Keys(bounty_board) : ~InList(k, removed_players) } ]]
  /\ event' = Ev("LbSelect", "ok", <<>>)
  /\ UNCHANGED <<bounty_board, db_file, last_game_data, sub, removal_views,
                 apply_log, ops, other_sub>>

\* LeaderboardEditView.done_editing up to its first await after the save.
LbDone(i, ok) ==
  /\ i \in 1..Len(lb_views)
  /\ lb_views[i].options # {}
  /\ IF NoneRemoved(lb_views[i].removed_players)
     THEN /\ ok
          /\ UNCHANGED <<bounty_board, db_file, apply_log, ops>>
          /\ event' = Ev("LbDone", "none", <<>>)
     ELSE /\ ops > 0
          /\ ops' = ops - 1
          /\ bounty_board' = DeleteAll(bounty_board, lb_views[i].removed_players)
          /\ db_file' = save_bounty_board(db_file, bounty_board', ok)
          /\ apply_log' = IF bounty_board' = bounty_board THEN apply_log ELSE <<>>
          /\ event' = Ev("LbDone", IF ok THEN "ok" ELSE "error", <<>>)
  /\ UNCHANGED <<last_game_data, sub, removal_views, lb_views, other_sub>>

\* Cancel, the message edit that ends done_editing, or the view's timeout.
LbClose(i) ==
  /\ i \in 1..Len(lb_views)
  /\ lb_views' = RemoveAt(lb_views, i)
  /\ event' = Ev("LbClose", "ok", <<>>)
  /\ UNCHANGED <<bounty_board, db_file, last_game_data, sub, removal_views,
                 apply_log, ops, other_sub>>

\* ------------------------------------------------- the other commands
remove_player(player, ok) ==
  /\ LET key == ResolveKey(bounty_board, player)
     IN  IF key = <<>>
         THEN /\ ok
              /\ UNCHANGED <<bounty_board, db_file, apply_log, ops>>
              /\ event' = Ev("remove_player", "notfound", <<player>>)
         ELSE /\ ops > 0
              /\ ops' = ops - 1
              /\ bounty_board' = Del(bounty_board, key[1])
              /\ db_file' = save_bounty_board(db_file, bounty_board', ok)
              /\ apply_log' = <<>>
              /\ event' = Ev("remove_player", IF ok THEN "ok" ELSE "error",
                             <<player>> \o key)
  /\ UNCHANGED <<last_game_data, sub, removal_views, lb_views, other_sub>>

\* A reset without "global bounty_board": the empty mapping is bound to a
\* local name and saved, and the ledger of the module stays as it was.
\* ResetEmptiesLedgerAndStore is measured against it.
reset_slash_local(ok) ==
  /\ ops > 0
  /\ ops' = ops - 1
  /\ bounty_board' = bounty_board
  /\ db_file' = save_bounty_board(db_file, <<>>, ok)
  /\ apply_log' = <<>>
  /\ event' = Ev("reset_bounties", IF ok THEN "ok" ELSE "error", <<>>)
  /\ UNCHANGED <<last_game_data, sub, removal_views, lb_views, other_sub>>

\* reset_slash: "bounty_board = {}" rebinds the global every other operation
\* reads by name, then the empty mapping is saved.
reset_slash(ok) ==
  /\ ops > 0
  /\ ops' = ops - 1
  /\ bounty_board' = <<>>
  /\ db_file' = save_bounty_board(db_file, bounty_board', ok)
  /\ apply_log' = <<>>
  /\ event' = Ev("reset_bounties", IF ok THEN "ok" ELSE "error", <<>>)
  /\ UNCHANGED <<last_game_data, sub, removal_views, lb_views, other_sub>>

bounty_slash(player) ==
  /\ event' = Ev("bounty",
                 IF ResolveKey(bounty_board, player) = <<>>
                 THEN "notfound" ELSE "found", <<>>)
  /\ UNCHANGED <<bounty_board, db_file, last_game_data, sub, removal_views,
                 lb_views, apply_log, ops, other_sub>>

leaderboard_slash ==
  /\ event' = Ev("leaderboard", "shown", <<>>)
  /\ UNCHANGED <<bounty_board, db_file, last_game_data, sub, removal_views,
                 lb_views, apply_log, ops, other_sub>>

\* ---------------------------------------------------------- specification
Next ==
  \/ \E exts \in AttachmentLists : SubmitStart(exts)
  \/ \E outcome \in Outcomes : SubmitProcess(outcome)
  \/ SubmitException
  \/ SubmitAbort
  \/ SubmitMerge
  \/ \E ok \in BOOLEAN : SubmitUpdate(ok)
  \/ \E ok \in BOOLEAN : SubmitReport(ok)
  \/ edit_last_game
  \/ \E i \in 1..Len(removal_views), player \in Names : ViewSelect(i, player)
  \/ \E i \in 1..Len(removal_views), ok \in BOOLEAN : ViewDone(i, ok)
  \/ \E i \in 1..Len(removal_views) : ViewClose(i)
  \/ edit_leaderboard
  \/ \E i \in 1..Len(lb_views), player \in Names : LbSelect(i, player)
  \/ \E i \in 1..Len(lb_views), ok \in BOOLEAN : LbDone(i, ok)
  \/ \E i \in 1..Len(lb_views) : LbClose(i)
  \/ \E player \in Names, ok \in BOOLEAN : remove_player(player, ok)
  \/ \E ok \in BOOLEAN : reset_slash(ok)
  \/ \E player \in Names : bounty_slash(player)
  \/ leaderboard_slash

Spec == Init /\ [][Next]_vars

\* The correction workflow alone: submissions of one screenshot that parses,
\* the edit view of /edit_last_game, and the commands that delete ledger keys
\* under it.
InitCorrection == Started(MaxCorrectionOps)

NextCorrection ==
  \/ SubmitStart(<<TRUE>>)
  \/ \E r \in Rankings : SubmitProcess([kind |-> "parsed", data |-> r])
  \/ \E ok \in BOOLEAN : SubmitUpdate(ok)
  \/ \E ok \in BOOLEAN : SubmitReport(ok)
  \/ edit_last_game
  \/ \E i \in 1..Len(removal_views), player \in Names : ViewSelect(i, player)
  \/ \E i \in 1..Len(removal_views), ok \in BOOLEAN : ViewDone(i, ok)
  \/ \E i \in 1..Len(removal_views) : ViewClose(i)
  \/ \E player \in Names, ok \in BOOLEAN : remove_player(player, ok)
  \/ \E ok \in BOOLEAN : reset_slash(ok)

SpecCorrection == InitCorrection /\ [][NextCorrection]_vars

\* One game and its corrections: a single submission of one screenshot that
\* parses, then /edit_last_game views, any number of them open at once, and
\* their buttons. No command deletes a ledger key.
FirstSubmitStart ==
  /\ last_game_data = <<>>
  /\ SubmitStart(<<TRUE>>)

NextOneGame ==
  \/ FirstSubmitStart
  \/ \E r \in Rankings : SubmitProcess([kind |-> "parsed", data |-> r])
  \/ \E ok \in BOOLEAN : SubmitUpdate(ok)
  \/ \E ok \in BOOLEAN : SubmitReport(ok)
  \/ edit_last_game
  \/ \E i \in 1..Len(removal_views), player \in Names : ViewSelect(i, player)
  \/ \E i \in 1..Len(removal_views), ok \in BOOLEAN : ViewDone(i, ok)
  \/ \E i \in 1..Len(removal_views) : ViewClose(i)

SpecOneGame == InitCorrection /\ [][NextOneGame]_vars

\* Two submit_marbles calls in flight at once. Every await of a call hands
\* control to the event loop, which may resume the other call: sub is the
\* call whose step runs next, other_sub the one suspended meanwhile.
ResumeOther ==
  /\ sub # other_sub
  /\ sub' = other_sub
  /\ other_sub' = sub
  /\ event' = Ev("ResumeOther", "ok", <<>>)
  /\ UNCHANGED <<bounty_board, db_file, last_game_data, removal_views,
                 lb_views, apply_log, ops>>

\* Submissions of one or two screenshots, two of them in flight at most,
\* interleaved with the correction view and with each other.
NextInterleaved ==
  \/ \E exts \in {<<TRUE>>, <<TRUE, TRUE>>} : SubmitStart(exts)
  \/ \E r \in Rankings : SubmitProcess([kind |-> "parsed", data |-> r])
  \/ SubmitMerge
  \/ \E ok \in BOOLEAN : SubmitUpdate(ok)
  \/ \E ok \in BOOLEAN : SubmitReport(ok)
  \/ ResumeOther
  \/ edit_last_game
  \/ \E i \in 1..Len(removal_views), player \in Names : ViewSelect(i, player)
  \/ \E i \in 1..Len(removal_views), ok \in BOOLEAN : ViewDone(i, ok)
  \/ \E i \in 1..Len(removal_views) : ViewClose(i)

SpecInterleaved == InitCorrection /\ [][NextInterleaved]_vars

\* merge_screenshot_data alone: one call on a list of rankings, its argument
\* and its result kept in event.
NameLists(n) == UNION { [1..k -> Names] : k \in 1..n }

\* The rankings of at most n players over Names.
RankingsUpTo(n) ==
  { r \in { MkRanking(names) : names \in NameLists(n) } : IsRanking(r) }

ParsedDataLists ==
  UNION { [1..k -> RankingsUpTo(MaxScreenPlayers)] : k \in 1..MaxScreens }

MergeCall(parsed_data_list) ==
  /\ event.op = "start"
  /\ event' = Ev("merge_screenshot_data", "ok",
                 <<parsed_data_list, merge_screenshot_data(parsed_data_list)>>)
  /\ UNCHANGED <<bounty_board, db_file, last_game_data, sub, removal_views,
                 lb_views, apply_log, ops, other_sub>>

NextMerge == \E parsed_data_list \in ParsedDataLists : MergeCall(parsed_data_list)

SpecMerge == Started(0) /\ [][NextMerge]_vars

\* calculate_bounty alone: one call, its arguments and its result kept in
\* event.
ScoreCall(position, total_players, is_winner) ==
  /\ event.op = "start"
  /\ event' = Ev("calculate_bounty", "ok",
                 << position, total_players, is_winner,
                    calculate_bounty(position, total_players, is_winner) >>)
  /\ UNCHANGED <<bounty_board, db_file, last_game_data, sub, removal_views,
                 lb_views, apply_log, ops, other_sub>>

NextScore ==
  \E total_players \in 1..MaxGamePlayers, position \in 1..MaxGamePlayers,
     is_winner \in BOOLEAN :
    /\ position <= total_players
    /\ ScoreCall(position, total_players, is_winner)

SpecScore == Started(0) /\ [][NextScore]_vars

\* update_bounty_board alone: the ledger is what load_bounty_board read from
\* the file at startup, and one ranking is applied to it.
\* The i-th player of the roster: "px", "pxx", ...
Player(i) == <<"p">> \o [j \in 1..i |-> "x"]

\* The totals a stored ledger gives its first player; the next ones hold 10
\* more each.
StoredTotals == {-80, 0, 150}

\* A stored ledger of the first known players of the roster.
StoredBoard(known, first_total) ==
  [i \in 1..known |-> <<Player(i), first_total + 10 * (i - 1)>>]

\* The ranking of a game of total_players players that puts the roster in
\* reverse order.
GameRanking(total_players) ==
  MkRanking([i \in 1..total_players |-> Player(total_players + 1 - i)])

\* load_bounty_board() at startup, the file holding a stored ledger.
LoadedApply ==
  /\ \E known \in 0..MaxGamePlayers, first_total \in StoredTotals :
       /\ bounty_board = StoredBoard(known, first_total)
       /\ db_file = bounty_board
  /\ last_game_data = <<>>
  /\ sub = IdleSub
  /\ other_sub = IdleSub
  /\ removal_views = <<>>
  /\ lb_views = <<>>
  /\ apply_log = <<>>
  /\ ops = 0
  /\ event = Ev("start", "ok", <<>>)

ApplyCall(parsed_data, ok) ==
  /\ event.op = "start"
  /\ update_bounty_board(bounty_board, parsed_data, ok)
  /\ event' = Ev("update_bounty_board", IF ok THEN "ok" ELSE "error",
                 <<bounty_board, parsed_data>>)
  /\ UNCHANGED <<sub, removal_views, lb_views, apply_log, ops, other_sub>>

NextApply ==
  \E total_players \in 1..MaxGamePlayers, ok \in BOOLEAN :
    ApplyCall(GameRanking(total_players), ok)

SpecApply == LoadedApply /\ [][NextApply]_vars

\* remove_player alone, on a ledger that load_bounty_board read from the
\* file at startup.
\* Removals that may still take effect in a run of remove_player alone.
MaxRemovals == 1

\* Keys of a stored ledger, and arguments of /remove_player: the names of the
\* model and a third spelling of the name that has two.
StoredNames == Names \cup { <<"A", "N", "N">> }

\* Keys of a stored ledger at most.
MaxStoredKeys == 3

\* The stored ledgers: up to MaxStoredKeys distinct keys in any insertion
\* order, each with any of the stored totals.
StoredBoards ==
  UNION { { b \in [1..k -> StoredNames \X StoredTotals] :
              \A i, j \in 1..k : i # j => b[i][1] # b[j][1] }
          : k \in 0..MaxStoredKeys }

LoadedRemove ==
  /\ bounty_board \in StoredBoards
  /\ db_file = bounty_board
  /\ last_game_data = <<>>
  /\ sub = IdleSub
  /\ other_sub = IdleSub
  /\ removal_views = <<>>
  /\ lb_views = <<>>
  /\ apply_log = <<>>
  /\ ops = MaxRemovals
  /\ event = Ev("start", "ok", <<>>)

NextRemove ==
  \E player \in StoredNames, ok \in BOOLEAN : remove_player(player, ok)

SpecRemove == LoadedRemove /\ [][NextRemove]_vars

\* parse_marbles_screenshot alone: one call on an OCR text, its argument and
\* its result kept in event.
\* Tokens of one OCR text.
MaxTextTokens == 3

\* The tokens of the texts: a placement indicator, a header keyword in
\* capitals, a time, a name with digits, a header word, two spellings of one
\* name, an ignore word, a name around a hyphen, a token of two letters and
\* an indicator followed by a colon.
TextTokens ==
  { <<"1", "S", "T">>,
    <<"T", "I", "M", "E">>,
    <<"0", "0", ":", "1", "2">>,
    <<"P", "l", "4", "y", "e", "r", "0", "n", "e">>,
    <<"P", "l", "a", "y", "e", "r">>,
    <<"b", "o", "b">>,
    <<"B", "o", "b">>,
    <<"e", "v", "e", "n">>,
    <<"a", "-", "b", "c">>,
    <<"a", "b">>,
    <<"D", "N", "F", ":">> }

\* What stands between two tokens of a text: a space or a line break.
TextSeparators == {" ", "\n"}

RECURSIVE BuildText(_, _)
BuildText(tokens, seps) ==
  IF Len(tokens) = 1 THEN tokens[1]
  ELSE tokens[1] \o <<seps[1]>> \o BuildText(Tail(tokens), Tail(seps))

\* The line of a screenshot with a placement, a column word, a time and a
\* name.
ExampleTexts ==
  { <<"1", "S", "T", " ", "T", "I", "M", "E", " ", "0", "0", ":", "1", "2",
      " ", "P", "l", "4", "y", "e", "r", "0", "n", "e">> }

\* The OCR texts: up to MaxTextTokens tokens, the empty text and the example.
Texts ==
  {<<>>} \cup ExampleTexts \cup
  UNION { { BuildText(tokens, seps) :
              tokens \in [1..k -> TextTokens],
              seps \in [1..(k - 1) -> TextSeparators] }
          : k \in 1..MaxTextTokens }

ParseCall(text) ==
  /\ event.op = "start"
  /\ event' = Ev("parse_marbles_screenshot", "ok",
                 <<text, parse_marbles_screenshot(text)>>)
  /\ UNCHANGED <<bounty_board, db_file, last_game_data, sub, removal_views,
                 lb_views, apply_log, ops, other_sub>>

NextParse == \E text \in Texts : ParseCall(text)

SpecParse == Started(0) /\ [][NextParse]_vars

\* merge_screenshot_data called on three rankings at once, and called on the
\* first two and then on its result and the third.
\* Players of one ranking in these runs.
MaxMergedPlayers == 2

\* The names of these rankings: those of the model and two of the roster.
MergedNames == Names \cup {Player(1), Player(2)}

MergedRankings ==
  { r \in { MkRanking(names) :
              names \in UNION { [1..k -> MergedNames]
                                : k \in 1..MaxMergedPlayers } } :
      IsRanking(r) }

MergeTwiceCall(A, B, C) ==
  /\ event.op = "start"
  /\ event' =
       Ev("merge_twice", "ok",
          << A, B, C,
             merge_screenshot_data(<<merge_screenshot_data(<<A, B>>), C>>),
             merge_screenshot_data(<<A, B, C>>) >>)
  /\ UNCHANGED <<bounty_board, db_file, last_game_data, sub, removal_views,
                 lb_views, apply_log, ops, other_sub>>

NextMergeTwice == \E A, B, C \in MergedRankings : MergeTwiceCall(A, B, C)

SpecMergeTwice == Started(0) /\ [][NextMergeTwice]_vars

\* format_leaderboard and format_game_results alone: one call on a loaded
\* ledger or on a ranking, the argument and the messages kept in event.
\* Players of the ledger or of the ranking that is formatted.
MaxListedPlayers == 50

\* Characters of the longest name: neither the pattern of the parser nor
\* clean_player_name bounds the length of a name.
MaxNameLen == 1900

LongName == [j \in 1..MaxNameLen |-> "x"]

\* A ledger of the first n players of the roster, whose totals repeat every
\* four players and are not in order.
ListedBoard(n, first_total) ==
  [i \in 1..n |-> <<Player(i), first_total + 10 * (i % 4)>>]

\* The ledgers that are formatted: up to MaxListedPlayers players, and one
\* with the longest name between two others.
ListedBoards ==
  { ListedBoard(n, first_total) :
      n \in 0..MaxListedPlayers, first_total \in StoredTotals }
    \cup { << <<Player(1), 220>>, <<LongName, 0>>, <<Player(2), 0>> >> }

\* The rankings that are formatted.
ListedRankings ==
  { GameRanking(n) : n \in 1..MaxListedPlayers }
    \cup { MkRanking(<<Player(1), LongName, Player(2)>>) }

LoadedFormat ==
  /\ bounty_board \in ListedBoards
  /\ db_file = bounty_board
  /\ last_game_data = <<>>
  /\ sub = IdleSub
  /\ other_sub = IdleSub
  /\ removal_views = <<>>
  /\ lb_views = <<>>
  /\ apply_log = <<>>
  /\ ops = 0
  /\ event = Ev("start", "ok", <<>>)

LeaderboardCall ==
  /\ event.op = "start"
  /\ event' = Ev("format_leaderboard", "ok",
                 <<bounty_board, format_leaderboard(bounty_board)>>)
  /\ UNCHANGED <<bounty_board, db_file, last_game_data, sub, removal_views,
                 lb_views, apply_log, ops, other_sub>>

\* format_game_results does not read the ledger: it is called with the
\* ledger empty.
GameResultsCall(parsed_data) ==
  /\ event.op = "start"
  /\ bounty_board = <<>>
  /\ event' = Ev("format_game_results", "ok",
                 <<parsed_data, format_game_results(parsed_data)>>)
  /\ UNCHANGED <<bounty_board, db_file, last_game_data, sub, removal_views,
                 lb_views, apply_log, ops, other_sub>>

NextFormat ==
  \/ LeaderboardCall
  \/ \E parsed_data \in ListedRankings : GameResultsCall(parsed_data)

SpecFormat == LoadedFormat /\ [][NextFormat]_vars

\* normalize_ocr_text and fuzzy_match_keyword alone: one call, its arguments
\* and its result kept in event.
\* Characters of a text handed to normalize_ocr_text or fuzzy_match_keyword.
MaxFuzzyLen == 3

\* Characters of a keyword handed to fuzzy_match_keyword.
MaxKeywordLen == 2

\* The characters of these texts: l, 1 and I, which OCR confuses with i; o
\* and 0; S and 5; and a letter that is not confused.
FuzzyChars == {"l", "1", "I", "o", "0", "S", "5", "t"}

StringsUpTo(n) == UNION { [1..k -> FuzzyChars] : k \in 0..n }

\* The texts and keywords of the docstring of fuzzy_match_keyword and of the
\* header keywords it is called with.
FuzzyExamples ==
  { << <<"T", "l", "m", "e">>, <<"t", "i", "m", "e">> >>,
    << <<"T", "i", "m", "e">>, <<"t", "i", "m", "e">> >>,
    << <<"P", "0", "i", "n", "t", "s">>, <<"p", "o", "i", "n", "t", "s">> >> }

NormalizeCall(text) ==
  /\ event.op = "start"
  /\ event' = Ev("normalize_ocr_text", "ok",
                 <<text, normalize_ocr_text(text)>>)
  /\ UNCHANGED <<bounty_board, db_file, last_game_data, sub, removal_views,
                 lb_views, apply_log, ops, other_sub>>

FuzzyCall(text, keyword) ==
  /\ event.op = "start"
  /\ event' = Ev("fuzzy_match_keyword", "ok",
                 <<text, keyword, fuzzy_match_keyword(text, keyword)>>)
  /\ UNCHANGED <<bounty_board, db_file, last_game_data, sub, removal_views,
                 lb_views, apply_log, ops, other_sub>>

NextFuzzy ==
  \/ \E text \in StringsUpTo(MaxFuzzyLen) : NormalizeCall(text)
  \/ \E text \in StringsUpTo(MaxFuzzyLen),
        keyword \in StringsUpTo(MaxKeywordLen) : FuzzyCall(text, keyword)
  \/ \E example \in FuzzyExamples : FuzzyCall(example[1], example[2])

SpecFuzzy == Started(0) /\ [][NextFuzzy]_vars

\* The example of the help text of /help_marbles, for a game of 10 players:
\* the points of the 1st, the 5th and the 10th place.
HelpExample == [players |-> 10, first |-> 300, fifth |-> 10, tenth |-> -90]

\* ------------------------------------------------------------- properties
\* A player's total in a ledger, an absent player counting 0.
Total(board, n) == IF Has(board, n) THEN Get(board, n) ELSE 0

SameTotals(a, b) == \A n \in Names : Total(a, n) = Total(b, n)

\* The steps of one submit_marbles call, by the event they leave.
SubmitSteps ==
  { "SubmitStart", "SubmitProcess", "SubmitException", "SubmitAbort",
    "SubmitMerge", "SubmitUpdate", "SubmitReport" }

\* The step just taken is a Done press of the correction view that went past
\* the early return; DoneStep is what it recorded.
DonePressed == event.op = "ViewDone" /\ event.outcome # "none"

DoneStep == event.detail[1]

\* The Done press just taken reverted the ranking whose application was the
\* latest operation on the ledger: DoneStep.log[1].L is the ledger that
\* ranking was applied to.
DoneRightAfterApply ==
  /\ DonePressed
  /\ DoneStep.log # <<>>
  /\ DoneStep.log[1].R = DoneStep.game
  /\ IsRanking(DoneStep.game)

\* C1: when a ranking R was applied to a ledger L and the revert loop of the
\* correction runs next, every player's total after the loop (an absent
\* player counting 0) is that player's total in L, and no player of R whose
\* total is then 0 is still a key of the ledger.
RevertRestoresLedger ==
  DoneRightAfterApply =>
    /\ SameTotals(DoneStep.reverted, DoneStep.log[1].L)
    /\ \A e \in Range(DoneStep.game.results) :
         Total(DoneStep.reverted, e[1]) = 0 => ~Has(DoneStep.reverted, e[1])

\* A Done press right after the ranking was applied whose revert loop deleted
\* a key and brought another player of the ranking back to a total that is
\* not 0.
RevertRestoresLedgerWitness ==
  /\ DoneRightAfterApply
  /\ \E e \in Range(DoneStep.game.results) :
       Has(DoneStep.before, e[1]) /\ ~Has(DoneStep.reverted, e[1])
  /\ \E e \in Range(DoneStep.game.results) :
       /\ Total(DoneStep.log[1].L, e[1]) # 0
       /\ Total(DoneStep.before, e[1]) # Total(DoneStep.log[1].L, e[1])

\* The position the i-th entry of ranking R has once the players of S are
\* taken out: one more than the entries kept before it.
CorrectedPosition(R, S, i) ==
  1 + Cardinality({ j \in 1..(i - 1) : ~InList(R.results[j][1], S) })

\* The score player n receives in the corrected ranking: 0 for a player
\* taken out or not in R.
CorrectedScore(R, S, n) ==
  LET kept == { j \in 1..Len(R.results) : ~InList(R.results[j][1], S) }
  IN  IF \E i \in kept : R.results[i][1] = n
      THEN LET i == CHOOSE j \in kept : R.results[j][1] = n
               position == CorrectedPosition(R, S, i)
           IN  calculate_bounty(position, Cardinality(kept), position = 1)
      ELSE 0

\* C2: when a ranking R was applied to a ledger L and the next ledger
\* operation is a correction with a non-empty removal set S, every player's
\* total afterwards (absent = 0) is the total in L plus the score of that
\* player in the corrected ranking: the entries of R not in S, in their
\* order, renumbered 1..k, scored for k players with the winner at the new
\* position 1; a removed player is back at the total in L.
CorrectionAppliesCorrectedRanking ==
  DoneRightAfterApply =>
    \A n \in Names :
      Total(bounty_board, n) =
        Total(DoneStep.log[1].L, n)
          + CorrectedScore(DoneStep.game, DoneStep.removed, n)

\* A correction of a three-player ranking, applied to a ledger that was not
\* empty, that takes out the winner alone: both players left move up.
CorrectionAppliesCorrectedRankingWitness ==
  /\ DoneRightAfterApply
  /\ event.outcome = "ok"
  /\ DoneStep.log[1].L # <<>>
  /\ Len(DoneStep.game.results) = 3
  /\ DoneStep.removed = << DoneStep.game.results[1][1] >>

\* C3: a Done press of the correction view with no player marked for removal
\* leaves every player's total as it was before the press.
EmptyCorrectionIsNoOp ==
  (event.op = "ViewDone" /\ event.detail[1].removed = <<>>) =>
    SameTotals(bounty_board, event.detail[1].before)

\* A Done press with nothing marked, on a view whose ranking has a player
\* the ledger no longer holds: reverting and applying the ranking again
\* would have changed that player's total.
EmptyCorrectionIsNoOpWitness ==
  /\ event.op = "ViewDone"
  /\ event.outcome = "none"
  /\ event.detail[1].removed = <<>>
  /\ bounty_board # <<>>
  /\ \E e \in Range(event.detail[1].game.results) : ~Has(bounty_board, e[1])

\* C4: the step at which a submission fails with an unexpected error (an
\* await that raises, the save inside update_bounty_board included) leaves
\* the in-memory ledger as it was.
FailedSubmissionLeavesLedger ==
  [][ (event'.op \in SubmitSteps /\ event'.outcome = "error")
        => bounty_board' = bounty_board ]_vars

\* C5: once every screenshot of a submission has been through the loop and
\* each one failed, the only step the submission takes is to give up (the
\* abort message, or an await that raises), and that step changes neither
\* the ledger, the file nor last_game_data.
AllScreenshotsFailedAborts ==
  [][ ( /\ sub.pc = "processing"
        /\ sub.idx = sub.screenshots
        /\ sub.failed = sub.screenshots
        /\ sub' # sub )
        => /\ event'.op \in {"SubmitAbort", "SubmitException"}
           /\ sub' = IdleSub
           /\ UNCHANGED <<bounty_board, db_file, last_game_data>> ]_vars

\* A submission of two screenshots, given up after both failed, while the
\* ledger holds an earlier game.
AllScreenshotsFailedAbortsWitness ==
  /\ event.op = "SubmitAbort"
  /\ event.detail[1] = 2
  /\ sub = IdleSub
  /\ bounty_board # <<>>
  /\ db_file = bounty_board
  /\ last_game_data # <<>>

\* The state of the program but for the history of the last step.
program == << bounty_board, db_file, last_game_data, sub, removal_views,
              lb_views >>

\* C6, as amended: an attachment whose filename is not an image's makes
\* submit_marbles reject the whole submission before any screenshot is
\* processed, whatever the other attachments are, and nothing changes; an
\* image that cannot be downloaded is only dropped, like a screenshot
\* without text, and the loop goes on to the next screenshot.
NonImageRejectsUnreadableSkips ==
  [][ /\ ( /\ event'.op = "SubmitStart"
           /\ \E i \in 1..Len(event'.detail[1]) : ~event'.detail[1][i] )
        => /\ event'.outcome = "rejected"
           /\ program' = program
      /\ (event'.op = "SubmitProcess" /\ event'.outcome = "unreadable")
        => /\ sub' = [sub EXCEPT !.idx = @ + 1, !.failed = @ + 1,
                                  !.unreadable = TRUE]
           /\ UNCHANGED <<bounty_board, db_file, last_game_data>> ]_vars

\* A submission of an image and a non-image, rejected while the ledger holds
\* an earlier game.
NonImageRejectsUnreadableSkipsWitness ==
  /\ event.op = "SubmitStart"
  /\ event.outcome = "rejected"
  /\ event.detail[1] = <<TRUE, FALSE>>
  /\ sub = IdleSub
  /\ bounty_board # <<>>

\* C6, as stated: a submission with a non-image attachment, or with an image
\* that could not be read, changes neither the ledger nor last_game_data
\* (steps that end in an unexpected error, which C4 is about, set aside).
InputErrorMutatesNothing ==
  [][ /\ ( /\ event'.op = "SubmitStart"
           /\ \E i \in 1..Len(event'.detail[1]) : ~event'.detail[1][i] )
        => UNCHANGED <<bounty_board, last_game_data>>
      /\ (sub.unreadable /\ sub' # sub /\ event'.outcome # "error")
        => UNCHANGED <<bounty_board, last_game_data>> ]_vars

\* C7: each pass of the loop appends a parsed ranking to the list and drops
\* a failed screenshot, so the list holds the parsed rankings in submission
\* order; the ledger is written by one step only, taken after the last
\* screenshot, which applies merge of that list and ends the processing; no
\* other step of the submission touches the ledger.
MergedRankingAppliedOnce ==
  [][ /\ event'.op = "SubmitProcess"
        => sub'.all_parsed_data =
             IF event'.outcome = "parsed"
             THEN Append(sub.all_parsed_data, event'.detail[1])
             ELSE sub.all_parsed_data
      /\ (event'.op \in SubmitSteps /\ event'.op # "SubmitUpdate")
        => UNCHANGED <<bounty_board, db_file, last_game_data>>
      /\ event'.op = "SubmitUpdate"
        => LET merged == merge_screenshot_data(sub.all_parsed_data)
           IN  /\ sub.idx = sub.screenshots
               /\ sub.pc \in {"processing", "merged"}
               /\ sub'.pc \in {"report", "idle"}
               /\ last_game_data' = <<merged>>
               /\ bounty_board' =
                    AddResults(bounty_board, merged.results,
                               merged.total_players) ]_vars

\* A submission of three screenshots of which one failed and two parsed to
\* different rankings, applied as their merge of three players.
MergedRankingAppliedOnceWitness ==
  /\ event.op = "SubmitUpdate"
  /\ event.outcome = "ok"
  /\ event.detail[1].failed = 1
  /\ Len(event.detail[1].parsed) = 2
  /\ event.detail[1].parsed[1] # event.detail[1].parsed[2]
  /\ event.detail[1].parsed[1].total_players = 2
  /\ last_game_data = <<merge_screenshot_data(event.detail[1].parsed)>>
  /\ last_game_data[1].total_players = 3

\* The operations that write the ledger, by the event they leave.
LedgerOps ==
  {"SubmitUpdate", "ViewDone", "LbDone", "remove_player", "reset_bounties"}

\* C8: after every operation that writes the ledger and whose save succeeds
\* (submit, correct, remove_player, edit-leaderboard removal, reset), the
\* file holds the ledger.
WriteThrough ==
  (event.op \in LedgerOps /\ event.outcome = "ok") => db_file = bounty_board

\* An edit-leaderboard removal that leaves players in the ledger, saved.
WriteThroughWitness ==
  /\ event.op = "LbDone"
  /\ event.outcome = "ok"
  /\ bounty_board # <<>>
  /\ db_file = bounty_board

\* C9: last_game_data changes only in a submit or a correct that succeeds;
\* every other step (a submission that fails, remove_player, reset, bounty,
\* leaderboard) leaves it as it was.
LastGameDataOnlyOnSuccess ==
  [][ last_game_data' # last_game_data
        => /\ event'.op \in {"SubmitUpdate", "ViewDone"}
           /\ event'.outcome = "ok" ]_vars

\* C10: the ranking a Done press of the correction view reverts is the one
\* last_game_data holds when the button is pressed.
DoneRevertsLastGameData ==
  [][ (event'.op = "ViewDone" /\ event'.outcome # "none")
        => last_game_data = << event'.detail[1].game >> ]_vars

\* The call of merge_screenshot_data just made: its argument and its result.
Merged == event.op = "merge_screenshot_data"

MergeArg == event.detail[1]

MergeResult == event.detail[2]

\* The entries of all the rankings of a list, one ranking after the other.
RECURSIVE AllEntries(_)
AllEntries(list) ==
  IF list = <<>> THEN <<>> ELSE Head(list).results \o AllEntries(Tail(list))

\* The places in AllEntries(list) that merge keeps: those of the first ranking,
\* and each later one whose lower-cased name has not appeared before it.
KeptPlaces(list) ==
  LET all == AllEntries(list)
  IN  { i \in 1..Len(all) :
          \/ i <= Len(list[1].results)
          \/ \A j \in 1..(i - 1) : lower(all[j][1]) # lower(all[i][1]) }

\* C11: merge of two or more rankings starts with the entries of the first
\* ranking as they are and goes on, in input order, with every entry of the
\* later rankings whose lower-cased name has not appeared earlier, numbered
\* one past the highest position so far; an entry whose name equals an
\* earlier one case-insensitively is left out.
MergeAppendsNewNames ==
  (Merged /\ Len(MergeArg) >= 2) =>
    LET all == AllEntries(MergeArg)
        kept == KeptPlaces(MergeArg)
        first == Len(MergeArg[1].results)
        place(k) ==
          CHOOSE i \in kept : Cardinality({ j \in kept : j < i }) = k - 1
    IN  /\ Len(MergeResult.results) = Cardinality(kept)
        /\ \A k \in 1..Len(MergeResult.results) :
             MergeResult.results[k] =
               IF k <= first THEN MergeArg[1].results[k]
               ELSE <<all[place(k)][1], MergeResult.results[k - 1][2] + 1>>

\* The example of the claim with a change of letter case: [Ann 1, bob 2] and
\* [ann 1, cat 2] give Ann 1, bob 2, cat 3.
MergeAppendsNewNamesWitness ==
  /\ Merged
  /\ MergeArg =
       << MkRanking(<< <<"A", "n", "n">>, <<"b", "o", "b">> >>),
          MkRanking(<< <<"a", "n", "n">>, <<"c", "a", "t">> >>) >>
  /\ MergeResult =
       MkRanking(<< <<"A", "n", "n">>, <<"b", "o", "b">>, <<"c", "a", "t">> >>)

\* C12: merge of a non-empty list of rankings that each satisfy the Ranking
\* invariant satisfies it too: total_players is the number of entries, the
\* positions are 1, 2, 3, ... in list order, and the names are pairwise
\* distinct case-insensitively.
MergeKeepsRankingInvariant ==
  (Merged /\ \A i \in 1..Len(MergeArg) : IsRanking(MergeArg[i]))
    => IsRanking(MergeResult)

\* A merge of three rankings that drops an entry and appends one from the
\* second ranking and one from the third.
MergeKeepsRankingInvariantWitness ==
  /\ Merged
  /\ Len(MergeArg) = 3
  /\ \A i \in 1..3 : IsRanking(MergeArg[i])
  /\ Len(MergeArg[1].results) = 1
  /\ Len(MergeArg[2].results) = 2
  /\ Len(MergeArg[3].results) = 2
  /\ MergeResult.total_players = 3
  /\ IsRanking(MergeResult)
\* The call of calculate_bounty just made.
Scored == event.op = "calculate_bounty"

ScorePosition == event.detail[1]

ScorePlayers == event.detail[2]

ScoreIsWinner == event.detail[3]

ScoreResult == event.detail[4]

\* C15: for 1 <= position <= total_players the score is
\* 20 * (total_players - position + 1) - 10 * total_players, plus 200 iff
\* is_winner; the placement term is a whole number, so truncating it before
\* or after the win bonus is added gives the same result.
ScoreClosedForm ==
  Scored =>
    LET placement2 ==   \* twice the placement term
          (2 * (ScorePlayers - ScorePosition + 1) - ScorePlayers) * 20
        bonus == IF ScoreIsWinner THEN 200 ELSE 0
    IN  /\ ScoreResult =
             20 * (ScorePlayers - ScorePosition + 1) - 10 * ScorePlayers
               + bonus
        /\ placement2 % 2 = 0
        /\ ScoreResult = IntTrunc(placement2 + 2 * bonus, 2)

\* The score of a place below the middle of a game with an odd number of
\* players: the half of N counts, and the term is negative.
ScoreClosedFormWitness ==
  /\ Scored
  /\ ScorePlayers = 7
  /\ ScorePosition = 6
  /\ ~ScoreIsWinner
  /\ ScoreResult = -30

\* C16: in a game of N players scored with the winner at position 1, the
\* score is strictly decreasing in the position: every later position scores
\* less, so position 1 has the maximum and position N the minimum.
ScoreDecreasesWithPosition ==
  (Scored /\ ScoreIsWinner = (ScorePosition = 1)) =>
    \A later \in (ScorePosition + 1)..ScorePlayers :
      calculate_bounty(later, ScorePlayers, later = 1) < ScoreResult

\* The second place of a game of 10 players: it scores less than the winner
\* and more than the eight places after it.
ScoreDecreasesWithPositionWitness ==
  /\ Scored
  /\ ScorePlayers = 10
  /\ ScorePosition = 2
  /\ ~ScoreIsWinner
  /\ ScoreResult < calculate_bounty(1, 10, TRUE)
  /\ ScoreResult > calculate_bounty(3, 10, FALSE)

\* C18: in a game of 10 players the score is 300 for the 1st place, 10 for
\* the 5th and -90 for the 10th, as the help text says.
ScoreMatchesHelpText ==
  (Scored /\ ScorePlayers = HelpExample.players
          /\ ScoreIsWinner = (ScorePosition = 1)) =>
    /\ ScorePosition = 1 => ScoreResult = HelpExample.first
    /\ ScorePosition = 5 => ScoreResult = HelpExample.fifth
    /\ ScorePosition = 10 => ScoreResult = HelpExample.tenth
\* The sum of the totals of a ledger.
RECURSIVE SumTotals(_)
SumTotals(board) ==
  IF board = <<>> THEN 0 ELSE Head(board)[2] + SumTotals(Tail(board))

\* The sum of the scores of the positions from..N of a game of N players,
\* the winner being position 1.
RECURSIVE SumScores(_, _)
SumScores(from, N) ==
  IF from > N THEN 0
  ELSE calculate_bounty(from, N, from = 1) + SumScores(from + 1, N)

\* The call of update_bounty_board just made: the ledger before it and the
\* ranking applied.
Applied == event.op = "update_bounty_board"

AppliedBefore == event.detail[1]

AppliedRanking == event.detail[2]

\* C17: the scores of the positions 1..N of a game sum to 10 * N + 200, so
\* applying a ranking of N players whose names are all keys of the ledger
\* raises the sum of the ledger totals by exactly 10 * N + 200.
ApplyRaisesSumBy10NPlus200 ==
  Applied =>
    LET N == AppliedRanking.total_players
    IN  /\ SumScores(1, N) = 10 * N + 200
        /\ (\A i \in 1..N : Has(AppliedBefore, AppliedRanking.results[i][1]))
             => SumTotals(bounty_board)
                  = SumTotals(AppliedBefore) + 10 * N + 200

\* A game of 5 players applied to a ledger of 7 that holds all of them with
\* totals other than 0.
ApplyRaisesSumBy10NPlus200Witness ==
  /\ Applied
  /\ AppliedRanking.total_players = 5
  /\ Len(AppliedBefore) = 7
  /\ AppliedBefore[1][2] = 150
  /\ SumTotals(bounty_board) = SumTotals(AppliedBefore) + 250
\* The places of the keys of board equal to player case-insensitively.
MatchingPlaces(board, player) ==
  { i \in 1..Len(board) : lower(board[i][1]) = lower(player) }

\* The place of the key that /remove_player player has to delete: the key
\* equal to player, else the first one equal to it case-insensitively.
PlaceToRemove(board, player) ==
  IF \E i \in 1..Len(board) : board[i][1] = player
  THEN CHOOSE i \in 1..Len(board) : board[i][1] = player
  ELSE CHOOSE i \in MatchingPlaces(board, player) :
         \A j \in MatchingPlaces(board, player) : i <= j

\* C19: /remove_player deletes the key equal to its argument if there is one,
\* else the first key equal to it case-insensitively, whatever its total:
\* exactly that key goes, every other key keeps its total, and the file takes
\* the result when the save succeeds; when no key matches, the ledger and
\* the file stay as they are and "not found" is reported.
RemoveDeletesResolvedKey ==
  [][ event'.op = "remove_player" =>
        LET player == event'.detail[1]
        IN  IF MatchingPlaces(bounty_board, player) = {}
            THEN /\ event'.outcome = "notfound"
                 /\ bounty_board' = bounty_board
                 /\ db_file' = db_file
            ELSE LET gone == PlaceToRemove(bounty_board, player)
                 IN  /\ event'.outcome \in {"ok", "error"}
                     /\ Len(bounty_board') = Len(bounty_board) - 1
                     /\ bounty_board' = RemoveAt(bounty_board, gone)
                     /\ event'.outcome = "ok" => db_file' = bounty_board'
    ]_vars

\* A removal by a spelling that is no key, from a ledger that holds two keys
\* equal to it case-insensitively, the later-inserted one being "Ann": the
\* first one ("ann") went, "Ann" stays, and the file holds the result.
RemoveDeletesResolvedKeyWitness ==
  /\ event.op = "remove_player"
  /\ event.outcome = "ok"
  /\ event.detail = << <<"A", "N", "N">>, <<"a", "n", "n">> >>
  /\ Has(bounty_board, <<"A", "n", "n">>)
  /\ Len(bounty_board) = 2
  /\ db_file = bounty_board
\* C20: after /reset_bounties the ledger is empty and, the save succeeding,
\* so is the file; the operation that follows observes the empty ledger:
\* /bounty and /remove_player find no player, /edit_leaderboard has nothing
\* to edit, a Done of a leaderboard view deletes nothing, and a submission or
\* a correction adds its scores to an empty ledger.
ResetEmptiesLedgerAndStore ==
  [][ /\ event'.op = "reset_bounties" =>
           /\ bounty_board' = <<>>
           /\ event'.outcome = "ok" => db_file' = <<>>
      /\ event.op = "reset_bounties" =>
           /\ event'.op \in {"bounty", "remove_player"}
                => event'.outcome = "notfound"
           /\ event'.op = "edit_leaderboard" => event'.outcome = "empty"
           /\ event'.op = "LbDone" => bounty_board' = <<>>
           /\ event'.op = "SubmitUpdate" =>
                bounty_board' =
                  AddResults(<<>>, last_game_data'[1].results,
                             last_game_data'[1].total_players)
           /\ (event'.op = "ViewDone" /\ event'.outcome = "ok") =>
                bounty_board' =
                  AddResults(<<>>, last_game_data'[1].results,
                             last_game_data'[1].total_players)
    ]_vars

\* A reset after a game was submitted: ledger and file are empty.
ResetEmptiesLedgerAndStoreWitness ==
  /\ event.op = "reset_bounties"
  /\ event.outcome = "ok"
  /\ last_game_data # <<>>
  /\ bounty_board = <<>>
  /\ db_file = <<>>
\* The call of parse_marbles_screenshot just made: the text and what was
\* returned, <<>> for None.
Parsed == event.op = "parse_marbles_screenshot"

ParsedText == event.detail[1]

ParsedResult == event.detail[2]

\* C13: every ranking parse returns, from the strict pass or from the
\* aggressive one, has total_players equal to the number of its entries,
\* positions 1..n in list order, and names pairwise distinct
\* case-insensitively.
ParsedRankingIsRanking ==
  (Parsed /\ ParsedResult # <<>>) =>
    LET r == ParsedResult[1]
    IN  /\ r.total_players = Len(r.results)
        /\ \A i \in 1..Len(r.results) : r.results[i][2] = i
        /\ \A i, j \in 1..Len(r.results) :
             i # j => lower(r.results[i][1]) # lower(r.results[j][1])

\* A text of three lines whose second repeats the name of the first in
\* another letter case: the strict pass returns two entries, the third line
\* at position 2.
ParsedRankingIsRankingWitness ==
  /\ Parsed
  /\ ParsedText =
       <<"b", "o", "b", "\n", "B", "o", "b", "\n",
         "P", "l", "4", "y", "e", "r", "0", "n", "e">>
  /\ ParsedResult =
       << MkRanking(<< <<"b", "o", "b">>,
                       <<"P", "l", "4", "y", "e", "r", "0", "n", "e">> >>) >>

\* C14: parse returns None or a ranking of at least one entry; when neither
\* the strict pass nor the aggressive fallback accepts an entry it returns
\* None, never a ranking with total_players = 0.
ParseNeverReturnsEmptyRanking ==
  Parsed =>
    /\ ParsedResult # <<>> =>
         /\ ParsedResult[1].total_players >= 1
         /\ Len(ParsedResult[1].results) >= 1
    /\ (StrictResults(ParsedText) = <<>>
          /\ AggressiveResults(ParsedText) = <<>>) => ParsedResult = <<>>

\* A text with lines but no usable name: a header line, and a line of a
\* placement indicator and a time.
ParseNeverReturnsEmptyRankingWitness ==
  /\ Parsed
  /\ ParsedText =
       <<"P", "l", "a", "y", "e", "r", "\n",
         "1", "S", "T", " ", "0", "0", ":", "1", "2">>
  /\ ParsedResult = <<>>
\* C23: normalize is idempotent: normalizing a normalized text changes
\* nothing.
NormalizeIsIdempotent ==
  event.op = "normalize_ocr_text" =>
    normalize_ocr_text(event.detail[2]) = event.detail[2]

\* A text of three confused characters, normalized to "sio".
NormalizeIsIdempotentWitness ==
  /\ event.op = "normalize_ocr_text"
  /\ event.detail[1] = <<"5", "1", "0">>
  /\ event.detail[2] = <<"s", "i", "o">>

\* The characters OCR confuses with c: those of {i, l, 1}, {o, 0} or {s, 5}
\* when c is one of them in either letter case, and c in either letter case.
Confused(c) ==
  LET classes == { {"i", "I", "l", "L", "1"}, {"o", "O", "0"},
                   {"s", "S", "5"} }
  IN  {c, LowerChar(c), UpperChar(c)}
        \cup UNION { class \in classes : c \in class }

\* s with the character at place i replaced by d.
Replaced(s, i, d) == [s EXCEPT ![i] = d]

\* C24: fuzzy_match_keyword(text, keyword) is true iff the normalized
\* keyword is a contiguous part of the normalized text; so the result stays
\* the same when a character of the text or of the keyword is replaced by
\* one OCR confuses with it ({i, l, 1}, {o, 0}, {s, 5}, either letter case).
FuzzyMatchIsNormalizedSubstring ==
  event.op = "fuzzy_match_keyword" =>
    LET text == event.detail[1]
        keyword == event.detail[2]
        found == event.detail[3]
        nt == normalize_ocr_text(text)
        nk == normalize_ocr_text(keyword)
    IN  /\ found <=>
             \E at \in 1..(Len(nt) - Len(nk) + 1) :
               \A j \in 1..Len(nk) : nt[at + j - 1] = nk[j]
        /\ \A i \in 1..Len(text) : \A d \in Confused(text[i]) :
             fuzzy_match_keyword(Replaced(text, i, d), keyword) = found
        /\ \A i \in 1..Len(keyword) : \A d \in Confused(keyword[i]) :
             fuzzy_match_keyword(text, Replaced(keyword, i, d)) = found

\* "time" is found in "Tlme".
FuzzyMatchIsNormalizedSubstringWitness ==
  /\ event.op = "fuzzy_match_keyword"
  /\ event.detail[1] = <<"T", "l", "m", "e">>
  /\ event.detail[2] = <<"t", "i", "m", "e">>
  /\ event.detail[3] = TRUE
\* The lower-cased names of a ranking.
LowerNames(r) == { lower(r.results[i][1]) : i \in 1..Len(r.results) }

\* C25: for rankings A, B, C with no name in common case-insensitively,
\* merging A and B and then the result with C gives the same entries, in
\* the same order and with the same positions, as merging A, B, C at once.
MergeInOneCallOrInTwo ==
  event.op = "merge_twice" =>
    LET A == event.detail[1]
        B == event.detail[2]
        C == event.detail[3]
    IN  ( /\ LowerNames(A) \cap LowerNames(B) = {}
          /\ LowerNames(A) \cap LowerNames(C) = {}
          /\ LowerNames(B) \cap LowerNames(C) = {} )
          => event.detail[4] = event.detail[5]

\* Three rankings of two, one and two players without a common name: both
\* ways give the five players at positions 1..5.
MergeInOneCallOrInTwoWitness ==
  /\ event.op = "merge_twice"
  /\ event.detail[1] = MkRanking(<< <<"A", "n", "n">>, <<"b", "o", "b">> >>)
  /\ event.detail[2] = MkRanking(<< <<"c", "a", "t">> >>)
  /\ event.detail[3] = MkRanking(<< Player(2), Player(1) >>)
  /\ event.detail[4] =
       MkRanking(<< <<"A", "n", "n">>, <<"b", "o", "b">>, <<"c", "a", "t">>,
                    Player(2), Player(1) >>)
  /\ event.detail[5] = event.detail[4]
\* The lines of the parsed text that reach the token loop of the strict
\* pass: neither a header line nor a header remnant.
StrictTokenLines ==
  SelectSeq(CleanLines(ParsedText),
            LAMBDA line :
              /\ ~fuzzy_match_any(line, header_line_keywords)
              /\ ~( /\ fuzzy_match_any(line, header_keywords)
                    /\ ~\E i \in 1..Len(line) : IsDigit(line[i]) ))

\* C26: in the strict pass, a token that is 1ST, 2ND, 3RD, DNF or IST in any
\* letter case once its non-word characters are stripped is never selected
\* as the player name of its line.
OrdinalNeverSelected ==
  Parsed =>
    \A k \in 1..Len(StrictTokenLines) :
      LET player_name == FindPlayerName(split(StrictTokenLines[k]))
      IN  player_name # <<>>
            => ~InList(upper(player_name[1]), placement_indicators)

\* The lines of a text, as text.split('\n') gives them.
TextLines(text) == SplitOn(text, "\n")

\* C27: in both passes a line whose normalized text contains the normalized
\* "place" or "player" gives no entry and takes no position: parse returns
\* what it returns for the text without that line.
HeaderLineIsSkipped ==
  Parsed =>
    \A k \in 1..Len(TextLines(ParsedText)) :
      LET line == TextLines(ParsedText)[k]
          n == normalize_ocr_text(line)
          without == Join(RemoveAt(TextLines(ParsedText), k), <<"\n">>)
      IN  ( \/ Contains(<<"p", "i", "a", "c", "e">>, n)
            \/ Contains(<<"p", "i", "a", "y", "e", "r">>, n) )
            => parse_marbles_screenshot(without) = ParsedResult

\* A header line before two names: the names are at positions 1 and 2.
HeaderLineIsSkippedWitness ==
  /\ Parsed
  /\ ParsedText =
       <<"P", "l", "a", "y", "e", "r", "\n", "b", "o", "b", "\n",
         "P", "l", "4", "y", "e", "r", "0", "n", "e">>
  /\ ParsedResult =
       << MkRanking(<< <<"b", "o", "b">>,
                       <<"P", "l", "4", "y", "e", "r", "0", "n", "e">> >>) >>

\* The places of line where a maximal run of letters, digits and underscores
\* starts.
RunStarts(line) ==
  { a \in 1..Len(line) :
      IsWord(line[a]) /\ (a = 1 \/ ~IsWord(line[a - 1])) }

\* The name the looser pattern finds in the run that starts at a: from its
\* first letter that has two more characters of the run after it, to the end
\* of the run; <<>> when there is none.
RunName(line, a) ==
  LET b == CHOOSE b \in a..Len(line) :
             /\ \A i \in a..b : IsWord(line[i])
             /\ (b = Len(line) \/ ~IsWord(line[b + 1]))
      from == { i \in a..(b - 2) : IsAsciiLetter(line[i]) }
  IN  IF from = {} THEN <<>>
      ELSE SubSeq(line, CHOOSE i \in from : \A j \in from : i <= j, b)

\* The name the aggressive pass has to accept on a line, the names seen
\* being those of the entries accepted: that of the leftmost run whose name
\* is no header keyword, no ignore word and not seen; <<>> when none is.
LooseName(line, seen) ==
  LET good == { a \in RunStarts(line) :
                  LET name == RunName(line, a)
                  IN  /\ name # <<>>
                      /\ ~fuzzy_match_any(name, header_keywords)
                      /\ ~InList(lower(name), ignore_words)
                      /\ ~InList(lower(name), [i \in 1..Len(seen) |->
                                                lower(seen[i])]) }
  IN  IF good = {} THEN <<>>
      ELSE RunName(line, CHOOSE a \in good : \A c \in good : a <= c)

\* The names accepted by the aggressive pass over lines, one per line at
\* most.
RECURSIVE LooseNames(_, _)
LooseNames(lines, seen) ==
  IF lines = <<>> THEN seen
  ELSE IF fuzzy_match_any(Head(lines), header_line_keywords)
         \/ LooseName(Head(lines), seen) = <<>>
       THEN LooseNames(Tail(lines), seen)
  ELSE LooseNames(Tail(lines), Append(seen, LooseName(Head(lines), seen)))

\* C28: parse returns the entries of the strict pass unchanged when it
\* accepted 2 or more; when it accepted 0 or 1 they are dropped and the
\* result, ranking or None, is that of the aggressive pass alone, which
\* accepts at most one name per line: the first match of a letter followed
\* by 2 or more letters, digits or underscores that is no header keyword, no
\* ignore word and no duplicate.
StrictOrElseAggressive ==
  Parsed =>
    IF Len(StrictResults(ParsedText)) >= 2
    THEN ParsedResult =
           << [ total_players |-> Len(StrictResults(ParsedText)),
                results |-> StrictResults(ParsedText) ] >>
    ELSE LET names == LooseNames(CleanLines(ParsedText), <<>>)
         IN  IF names = <<>> THEN ParsedResult = <<>>
             ELSE ParsedResult = <<MkRanking(names)>>

\* One line with two names: the strict pass accepts one, so the aggressive
\* pass decides, and it takes the first name of the line only.
StrictOrElseAggressiveWitness ==
  /\ Parsed
  /\ ParsedText =
       <<"b", "o", "b", " ",
         "P", "l", "4", "y", "e", "r", "0", "n", "e">>
  /\ Len(StrictResults(ParsedText)) = 1
  /\ ParsedResult = << MkRanking(<< <<"b", "o", "b">> >>) >>

\* The candidate of the tokens of a line when every test is made on the
\* token stripped of its non-word characters: the first token that is no
\* placement indicator, matches no header keyword, is no ignore word and is
\* a letter followed by letters, digits or underscores, 3 characters or more.
RECURSIVE StrippedCandidate(_)
StrippedCandidate(tokens) ==
  IF tokens = <<>> THEN <<>>
  ELSE LET stripped == SelectSeq(Head(tokens), IsWord)
       IN  IF /\ ~InList(upper(stripped), placement_indicators)
              /\ ~fuzzy_match_any(stripped, header_keywords)
              /\ ~InList(lower(stripped), ignore_words)
              /\ MatchesUsername(stripped)
              /\ Len(stripped) >= 3
           THEN <<stripped>>
           ELSE StrippedCandidate(Tail(tokens))

\* The candidate when the placement indicators are compared with the token
\* as it is written and the other tests are made on the stripped token.
RECURSIVE WrittenCandidate(_)
WrittenCandidate(tokens) ==
  IF tokens = <<>> THEN <<>>
  ELSE LET stripped == SelectSeq(Head(tokens), IsWord)
       IN  IF /\ ~InList(upper(Head(tokens)), placement_indicators)
              /\ ~fuzzy_match_any(stripped, header_keywords)
              /\ ~InList(lower(stripped), ignore_words)
              /\ MatchesUsername(stripped)
              /\ Len(stripped) >= 3
           THEN <<stripped>>
           ELSE WrittenCandidate(Tail(tokens))

\* The names the strict pass has to accept over lines, given the candidate
\* of each line as <<name>> or <<>>: a candidate is accepted unless an
\* accepted name equals it case-insensitively.
RECURSIVE AcceptedCandidates(_, _)
AcceptedCandidates(candidates, seen) ==
  IF candidates = <<>> THEN seen
  ELSE IF \/ Head(candidates) = <<>>
          \/ \E i \in 1..Len(seen) :
               lower(seen[i]) = lower(Head(candidates)[1])
       THEN AcceptedCandidates(Tail(candidates), seen)
  ELSE AcceptedCandidates(Tail(candidates),
                          Append(seen, Head(candidates)[1]))

\* C29: in the strict pass the candidate of a non-header line is the first
\* token that, stripped of its non-word characters, is no ordinal, matches
\* no header keyword, is no ignore word and is a letter followed by letters,
\* digits or underscores, 3 or more characters; it gets the next position
\* unless it duplicates an accepted name case-insensitively.
StrictTakesFirstCandidate ==
  Parsed =>
    StrictResults(ParsedText) =
      MkRanking(AcceptedCandidates(
                  [k \in 1..Len(StrictTokenLines) |->
                     StrippedCandidate(split(StrictTokenLines[k]))],
                  <<>>)).results

\* The strict pass takes the first candidate of each line when the
\* placement indicators are compared with the token as written.
StrictTakesFirstWrittenCandidate ==
  Parsed =>
    StrictResults(ParsedText) =
      MkRanking(AcceptedCandidates(
                  [k \in 1..Len(StrictTokenLines) |->
                     WrittenCandidate(split(StrictTokenLines[k]))],
                  <<>>)).results

\* C30: every name of a ranking parse returns is not empty, has no space at
\* either end, starts with a letter, holds letters, digits and underscores
\* only, is 3 characters or longer, matches none of the nine header keywords
\* and is none of the ignore words in any letter case.
ParsedNamesAreUsernames ==
  (Parsed /\ ParsedResult # <<>>) =>
    \A k \in 1..Len(ParsedResult[1].results) :
      LET name == ParsedResult[1].results[k][1]
      IN  /\ Len(name) >= 3
          /\ ~IsSpace(name[1]) /\ ~IsSpace(name[Len(name)])
          /\ IsAsciiLetter(name[1])
          /\ \A i \in 1..Len(name) :
               IsAsciiLetter(name[i]) \/ IsDigit(name[i]) \/ name[i] = "_"
          /\ \A h \in 1..Len(header_keywords) :
               ~Contains(normalize_ocr_text(header_keywords[h]),
                         normalize_ocr_text(name))
          /\ \A w \in 1..Len(ignore_words) : lower(name) # ignore_words[w]

\* An ignore word before the name of the first line, and a name with digits
\* on the second: the ranking holds the two names.
ParsedNamesAreUsernamesWitness ==
  /\ Parsed
  /\ ParsedText =
       <<"e", "v", "e", "n", " ", "b", "o", "b", "\n",
         "P", "l", "4", "y", "e", "r", "0", "n", "e">>
  /\ ParsedResult =
       << MkRanking(<< <<"b", "o", "b">>,
                       <<"P", "l", "4", "y", "e", "r", "0", "n", "e">> >>) >>
\* The rows of a list of messages, in order.
RECURSIVE RowsOf(_)
RowsOf(messages) ==
  IF messages = <<>> THEN <<>>
  ELSE SelectSeq(Head(messages), LAMBDA line : line.kind = "row")
         \o RowsOf(Tail(messages))

\* The place of a key in the ledger.
PlaceOf(board, k) == CHOOSE i \in 1..Len(board) : board[i][1] = k

\* C21: the leaderboard lists every player of the ledger exactly once, with
\* the ranks 1..n in order of non-increasing total; players of equal total
\* keep the order they have in the ledger.
LeaderboardListsEveryPlayerOnce ==
  event.op = "format_leaderboard" =>
    LET board == event.detail[1]
        rows == RowsOf(event.detail[2])
    IN  /\ Len(rows) = Len(board)
        /\ \A k \in Keys(board) :
             Cardinality({ i \in 1..Len(rows) : rows[i].player = k }) = 1
        /\ \A i \in 1..Len(rows) :
             /\ rows[i].rank = i
             /\ Has(board, rows[i].player)
             /\ rows[i].bounty = Get(board, rows[i].player)
        /\ \A i, j \in 1..Len(rows) :
             i < j =>
               /\ rows[i].bounty >= rows[j].bounty
               /\ rows[i].bounty = rows[j].bounty =>
                    PlaceOf(board, rows[i].player)
                      < PlaceOf(board, rows[j].player)

\* A leaderboard of 50 players in two messages: the players of the greatest
\* total come first, in the order of the ledger.
LeaderboardListsEveryPlayerOnceWitness ==
  /\ event.op = "format_leaderboard"
  /\ Len(event.detail[1]) = 50
  /\ Len(event.detail[2]) = 2
  /\ RowsOf(event.detail[2])[1].player = Player(3)
  /\ RowsOf(event.detail[2])[2].player = Player(7)
  /\ RowsOf(event.detail[2])[1].bounty = RowsOf(event.detail[2])[2].bounty

\* The messages of the formatter call just made.
Formatted == event.op \in {"format_leaderboard", "format_game_results"}

FormattedMessages == event.detail[2]

\* A message of a table is well-formed: title, fence, column names and rule,
\* then rows only, then the closing fence.
TableMessage(message) ==
  /\ Len(message) >= 5
  /\ message[1].kind = "title"
  /\ message[2].kind = "fence"
  /\ message[3].kind = "columns"
  /\ message[4].kind = "rule"
  /\ \A i \in 5..(Len(message) - 1) : message[i].kind = "row"
  /\ message[Len(message)].kind = "close"

\* C22: for any ledger and any ranking, every message of format_leaderboard
\* and of format_game_results is at most 2000 characters long, holds whole
\* rows only and carries its own title and column header.
MessagesFitAndAreWhole ==
  Formatted =>
    \A m \in 1..Len(FormattedMessages) :
      /\ MessageLen(FormattedMessages[m]) <= 2000
      /\ \/ TableMessage(FormattedMessages[m])
         \/ event.detail[1] = <<>>

\* The same, for the ledgers and rankings whose rows are at most 1766
\* characters long: such a row fits behind the head of a message.
MessagesFitWhenRowsDo ==
  (Formatted
     /\ \A i \in 1..Len(RowsOf(FormattedMessages)) :
          RowsOf(FormattedMessages)[i].len <= 1766) =>
    \A m \in 1..Len(FormattedMessages) :
      /\ MessageLen(FormattedMessages[m]) <= 2000
      /\ \/ TableMessage(FormattedMessages[m])
         \/ event.detail[1] = <<>>

\* The step just taken called update_bounty_board, for a submission or for a
\* correction: apply_log holds the ledger the ranking was applied to and the
\* ranking.
UpdateCalled == event.op = "SubmitUpdate" \/ DonePressed

\* The scores of the entries of ranking R whose name is exactly n, summed.
RECURSIVE ScoreOfEntries(_, _, _)
ScoreOfEntries(results, total_players, n) ==
  IF results = <<>> THEN 0
  ELSE (IF Head(results)[1] = n
        THEN calculate_bounty(Head(results)[2], total_players,
                              Head(results)[2] = 1)
        ELSE 0)
       + ScoreOfEntries(Tail(results), total_players, n)

\* C31: applying a ranking R changes only the ledger keys that are exactly,
\* case-sensitively, a name of R: each of them is a key afterwards and holds
\* its total before (0 when it was absent) plus the score of its entry; every
\* other name, a name that differs from one of R only by letter case
\* included, is a key exactly when it was one and keeps its total.
ApplyChangesOnlyNamedKeys ==
  UpdateCalled =>
    LET L == apply_log[1].L
        R == apply_log[1].R
    IN  \A n \in Names \cup Keys(L) \cup Keys(bounty_board) :
          IF \E e \in Range(R.results) : e[1] = n
          THEN /\ Has(bounty_board, n)
               /\ Get(bounty_board, n)
                    = Total(L, n) + ScoreOfEntries(R.results, R.total_players, n)
          ELSE /\ Has(bounty_board, n) = Has(L, n)
               /\ Total(bounty_board, n) = Total(L, n)

\* A ranking that names "ann" applied to a ledger that holds "Ann" and not
\* "ann": afterwards both are keys, and "Ann" holds what it held.
ApplyChangesOnlyNamedKeysWitness ==
  /\ UpdateCalled
  /\ LET L == apply_log[1].L
         R == apply_log[1].R
         Ann == <<"A", "n", "n">>
         ann == <<"a", "n", "n">>
     IN  /\ Has(L, Ann) /\ ~Has(L, ann)
         /\ Get(L, Ann) # 0
         /\ \E e \in Range(R.results) : e[1] = ann
         /\ \A e \in Range(R.results) : e[1] # Ann
         /\ Has(bounty_board, ann)
         /\ Has(bounty_board, Ann)
         /\ Get(bounty_board, Ann) = Get(L, Ann)

\* C32: in an execution made of submissions and corrections only, several
\* edit views open on one ranking and repeated Done presses included, every
\* player's total (absent = 0) is the sum of that player's scores over the
\* rankings in effect, each counted once in its latest corrected form. With
\* one game submitted the ranking in effect is the one applied last, which
\* last_game_data holds; before the submission none is.
LedgerHoldsRankingInEffect ==
  \A n \in Names \cup Keys(bounty_board) :
    Total(bounty_board, n) =
      IF last_game_data = <<>> THEN 0
      ELSE ScoreOfEntries(last_game_data[1].results,
                          last_game_data[1].total_players, n)

\* The ledger after is the ledger before with the whole ranking R added:
\* every entry of R, and nothing else.
WholeRankingApplied(before, after, R) ==
  /\ IsRanking(R)
  /\ \A n \in Names \cup Keys(before) \cup Keys(after) :
       Total(after, n)
         = Total(before, n) + ScoreOfEntries(R.results, R.total_players, n)

\* The ledger after is the ledger before with both halves of the correction
\* of ranking R by the removal set S done: the score of every entry of R
\* whose player is a key subtracted, and the whole corrected ranking added.
WholeCorrectionApplied(before, after, R, S) ==
  \A n \in Names \cup Keys(before) \cup Keys(after) :
    Total(after, n)
      = Total(before, n)
          - (IF Has(before, n)
             THEN ScoreOfEntries(R.results, R.total_players, n) ELSE 0)
          + CorrectedScore(R, S, n)

\* C33: the ledger update of a submission and the revert-and-reapply of a
\* correction each happen in one step between two suspension points, also
\* while another submission is in flight: a step that changes the ledger,
\* the file or last_game_data is the update of a submission, which adds the
\* whole ranking of that submission and saves it, or a Done press, which
\* reverts and applies the whole corrected ranking and saves it. No state
\* another handler or callback runs in has part of a ranking applied or a
\* ranking reverted and not applied again.
LedgerChangesByWholeOperations ==
  [][ (\/ bounty_board' # bounty_board
       \/ db_file' # db_file
       \/ last_game_data' # last_game_data)
        => /\ db_file' = IF event'.outcome = "ok" THEN bounty_board'
                         ELSE db_file
           /\ \/ /\ event'.op = "SubmitUpdate"
                 /\ sub.idx = sub.screenshots
                 /\ apply_log'[1].R =
                      IF Len(sub.all_parsed_data) = 1
                      THEN sub.all_parsed_data[1]
                      ELSE merge_screenshot_data(sub.all_parsed_data)
                 /\ last_game_data' = <<apply_log'[1].R>>
                 /\ WholeRankingApplied(bounty_board, bounty_board',
                                        apply_log'[1].R)
              \/ /\ event'.op = "ViewDone"
                 /\ event'.outcome # "none"
                 /\ last_game_data' =
                      << NewGameData(event'.detail[1].game.results,
                                     event'.detail[1].removed) >>
                 /\ WholeCorrectionApplied(bounty_board, bounty_board',
                                           event'.detail[1].game,
                                           event'.detail[1].removed) ]_vars

\* The update of one submission right after the screenshots of another one,
\* still in flight, were read: the ledger held an earlier game and now holds
\* every entry of the ranking as well.
LedgerChangesByWholeOperationsWitness ==
  /\ event.op = "SubmitUpdate"
  /\ other_sub.pc = "processing"
  /\ other_sub.idx > 0
  /\ other_sub.idx < other_sub.screenshots
  /\ apply_log[1].L # <<>>
  /\ apply_log[1].R.total_players = 3
  /\ WholeRankingApplied(apply_log[1].L, bounty_board, apply_log[1].R)

\* The names of the entries of a ranking.
NamesOf(R) == { e[1] : e \in Range(R.results) }

\* C34: applying a ranking never deletes a ledger key: every key of the
\* ledger it is applied to, and every player the ranking names, is a key
\* afterwards, a player whose total is then 0 included. The revert loop of a
\* correction deletes the keys of players of the reverted ranking whose total
\* it brings to 0, and no other key.
ApplyNeverDeletesKey ==
  /\ UpdateCalled =>
       /\ Keys(apply_log[1].L) \subseteq Keys(bounty_board)
       /\ NamesOf(apply_log[1].R) \subseteq Keys(bounty_board)
  /\ DonePressed =>
       \A k \in Keys(DoneStep.before) :
         ~Has(DoneStep.reverted, k) <=>
           /\ k \in NamesOf(DoneStep.game)
           /\ Get(DoneStep.before, k)
                = ScoreOfEntries(DoneStep.game.results,
                                 DoneStep.game.total_players, k)

\* A submission that puts a player the ledger did not hold at position
\* N/2 + 1 of a ranking of N = 2 players: the player is a key with total 0.
ApplyNeverDeletesKeyWitness ==
  /\ event.op = "SubmitUpdate"
  /\ apply_log[1].R.total_players = 2
  /\ LET n == apply_log[1].R.results[2][1]
     IN  /\ ~Has(apply_log[1].L, n)
         /\ Has(bounty_board, n)
         /\ Get(bounty_board, n) = 0

\* C35: the revert loop of a correction creates no ledger key and changes
\* only players of the reverted ranking that the ledger holds when Done is
\* pressed. For a player of the ranking deleted in the meantime nothing is
\* subtracted: after the correction that player's total is the score in the
\* corrected ranking, and a correction pressed on an empty ledger (after a
\* reset) leaves exactly the players and scores of the corrected ranking.
RevertNeverCreatesKey ==
  DonePressed =>
    LET new_game_data == NewGameData(DoneStep.game.results, DoneStep.removed)
    IN  /\ Keys(DoneStep.reverted) \subseteq Keys(DoneStep.before)
        /\ \A k \in Keys(DoneStep.before) \ NamesOf(DoneStep.game) :
             /\ Has(DoneStep.reverted, k)
             /\ Get(DoneStep.reverted, k) = Get(DoneStep.before, k)
        /\ \A n \in NamesOf(DoneStep.game) \ Keys(DoneStep.before) :
             Total(bounty_board, n)
               = CorrectedScore(DoneStep.game, DoneStep.removed, n)
        /\ DoneStep.before = <<>> =>
             /\ Keys(bounty_board) = NamesOf(new_game_data)
             /\ \A n \in Keys(bounty_board) :
                  Get(bounty_board, n)
                    = CorrectedScore(DoneStep.game, DoneStep.removed, n)

\* submit(R); remove_player(x); correct(S) with x not in S: a Done press on a
\* ledger that holds one player of the ranking with the score of the game
\* and lacks another, x, who stays in the corrected ranking and holds just
\* the score of that ranking afterwards.
RevertNeverCreatesKeyWitness ==
  /\ DonePressed
  /\ DoneStep.log = <<>>
  /\ \E x \in NamesOf(DoneStep.game) :
       /\ ~Has(DoneStep.before, x)
       /\ ~InList(x, DoneStep.removed)
       /\ ~Has(DoneStep.reverted, x)
       /\ Total(bounty_board, x) # 0
       /\ Total(bounty_board, x)
            = CorrectedScore(DoneStep.game, DoneStep.removed, x)
  /\ \E y \in NamesOf(DoneStep.game) :
       /\ Has(DoneStep.before, y)
       /\ Get(DoneStep.before, y) # 0
       /\ ~Has(DoneStep.reverted, y)

\* submit(R); reset(); correct(S): a Done press on the empty ledger.
RevertAfterResetReached ==
  /\ DonePressed
  /\ DoneStep.before = <<>>
  /\ DoneStep.game.total_players = 3
  /\ Len(bounty_board) = 2

\* C36: the aggressive fallback never loses the only result of the strict
\* pass: on every text on which the strict pass accepts exactly one entry,
\* parse returns a ranking, not None, and the ranking holds that entry's
\* name.
AggressiveKeepsStrictResult ==
  (Parsed /\ Len(StrictResults(ParsedText)) = 1) =>
    /\ ParsedResult # <<>>
    /\ \E e \in Range(ParsedResult[1].results) :
         e[1] = StrictResults(ParsedText)[1][1]

====
